---- MODULE Spec2Model ----
(***************************************************************************)
(* Model of the AI utility layer of the task-management server:            *)
(*   - CacheManager (get / set / delete / cleanup / clear) and its         *)
(*     process-wide instances shortTermCache and mediumTermCache,          *)
(*   - callGeminiAPI, the cache-backed wrapper around the remote           *)
(*     text-generation call with its optional fallback function,           *)
(*   - the feature functions that call the wrapper.                        *)
(* All of it lives in src/server/create-admin.js (lines 34-950).           *)
(*                                                                         *)
(* JavaScript values are tagged records (Str, Undefined, Null, ...), so    *)
(* that truthiness tests of the code (if (cachedResponse), customTtl ||    *)
(* this.ttl) are modelled by what they do.  Time is Date.now() in          *)
(* milliseconds.  An async function is a sequence of atomic segments       *)
(* separated by its awaits: one action per segment.                        *)
(***************************************************************************)
EXTENDS Integers, Sequences, FiniteSets, TLC

VARIABLES
    now,              \* Date.now(), in ms
    ticks,            \* number of time advances so far (bounded)
    shortTermCache,   \* CacheManager.cache of the 5-minute instance
    mediumTermCache,  \* CacheManager.cache of the 1-hour instance
    lastOp,           \* the latest direct CacheManager operation and its return
    inv,              \* per invocation slot: the running async call
    started,          \* number of invocations started so far (bounded)
    users,            \* the User table: id -> the columns role and isActive
    requests          \* per client: the HTTP request it has in flight

vars == <<now, ticks, shortTermCache, mediumTermCache, lastOp, inv, started,
          users, requests>>

(***************************************************************************)
(* Bounds of the model                                                     *)
(***************************************************************************)
MaxTicks == 2
MaxCalls == 2
MaxWaits == 1

(***************************************************************************)
(* Program constants                                                       *)
(***************************************************************************)
ShortTtl == 300000
MediumTtl == 3600000
DefaultCacheTtl == 3600000
PrioritizationTtl == 1800000

(***************************************************************************)
(* JavaScript values                                                       *)
(***************************************************************************)
Str(s) == [t |-> "string", s |-> s]
Undefined == [t |-> "undefined", s |-> << >>]
Null == [t |-> "null", s |-> << >>]

\* ToBoolean of the values the caches and the wrapper handle
Truthy(v) == ~(v.t \in {"undefined", "null"}) /\ ~(v.t = "string" /\ v.s = << >>)

\* an optional numeric argument: omitted (undefined) or a number of ms
NoTtl == [given |-> FALSE, ms |-> 0]
Ttl(n) == [given |-> TRUE, ms |-> n]

\* objects and arrays
Obj(fields) == [t |-> "object", o |-> fields]
List(items) == [t |-> "array", l |-> items]

(***************************************************************************)
(* Strings are sequences of characters.  A literal of the source that no   *)
(* code takes apart is kept as one element.                                *)
(***************************************************************************)
RECURSIVE TrimStart(_)
TrimStart(str) ==
    IF str # << >> /\ Head(str) \in {" ", "\n"} THEN TrimStart(Tail(str)) ELSE str

RECURSIVE TrimEnd(_)
TrimEnd(str) ==
    IF str # << >> /\ str[Len(str)] \in {" ", "\n"}
    THEN TrimEnd(SubSeq(str, 1, Len(str) - 1))
    ELSE str

\* String.prototype.trim
Trim(str) == TrimEnd(TrimStart(str))

\* String.prototype.includes
Includes(str, part) ==
    \E i \in 0..(Len(str) - Len(part)) : SubSeq(str, i + 1, i + Len(part)) = part

\* String.prototype.startsWith
StartsWith(str, part) ==
    Len(part) <= Len(str) /\ SubSeq(str, 1, Len(part)) = part

\* String.prototype.toLowerCase, on the letters that occur in upper case
ToLowerCase(str) ==
    [i \in DOMAIN str |->
        CASE str[i] = "W" -> "w"
          [] str[i] = "H" -> "h"
          [] str[i] = "U" -> "u"
          [] OTHER -> str[i]]

\* the least index of a set of indices, 0 when there is none:
\* Array.prototype.find and String.prototype.indexOf
MinIndex(indices) ==
    IF indices = {} THEN 0 ELSE CHOOSE i \in indices : \A j \in indices : i <= j

\* the capture of "([^"]+)" after a literal of a template: the characters
\* up to the first double quote, and no match (<< >>) when there is none
\* before it
RECURSIVE UpToQuote(_)
UpToQuote(str) ==
    IF str = << >> \/ Head(str) = "\"" THEN << >>
    ELSE <<Head(str)>> \o UpToQuote(Tail(str))

\* Array.prototype.join
RECURSIVE Join(_, _)
Join(strs, sep) ==
    IF strs = << >> THEN << >>
    ELSE IF Len(strs) = 1 THEN strs[1]
    ELSE strs[1] \o sep \o Join(Tail(strs), sep)

\* String.prototype.split on single separator characters; runs of them
\* give empty pieces
RECURSIVE Split(_, _)
Split(str, seps) ==
    LET cut == {i \in DOMAIN str : str[i] \in seps}
        first == CHOOSE i \in cut : \A j \in cut : i <= j
    IN  IF cut = {} THEN <<str>>
        ELSE <<SubSeq(str, 1, first - 1)>> \o Split(SubSeq(str, first + 1, Len(str)), seps)

\* Array.prototype.slice(0, n)
Slice(seq, n) == SubSeq(seq, 1, IF Len(seq) < n THEN Len(seq) ELSE n)

\* the elements of a sequence without repetition, in order of first
\* occurrence: [...new Set(array)]
RECURSIVE Distinct(_)
Distinct(seq) ==
    IF seq = << >> THEN << >>
    ELSE LET init == Distinct(SubSeq(seq, 1, Len(seq) - 1))
             x == seq[Len(seq)]
         IN  IF \E i \in DOMAIN init : init[i] = x THEN init ELSE Append(init, x)

Some(x) == [given |-> TRUE, v |-> x]
None == [given |-> FALSE, v |-> << >>]

\* (1000 * 60 * 60 * 24)
DayMs == 1000 * 60 * 60 * 24

\* { ...a, ...b }
Spread(a, b) ==
    [k \in (DOMAIN a) \cup (DOMAIN b) |-> IF k \in DOMAIN b THEN b[k] ELSE a[k]]

(***************************************************************************)
(* CacheManager                                                            *)
(***************************************************************************)
EmptyCache == [k \in {} |-> [value |-> Null, expiry |-> 0]]

Remove(cache, key) == [k \in (DOMAIN cache) \ {key} |-> cache[k]]

Put(cache, key, entry) ==
    [k \in (DOMAIN cache) \cup {key} |-> IF k = key THEN entry ELSE cache[k]]

\* get(key): the returned value and the map afterwards (an expired entry is
\* deleted by the read)
CacheGetNoExpiryCheck(cache, key, t) ==
    IF key \notin DOMAIN cache
    THEN [value |-> Null, cache |-> cache]
    ELSE [value |-> cache[key].value, cache |-> cache]

CacheGet(cache, key, t) ==
    IF key \notin DOMAIN cache
    THEN [value |-> Null, cache |-> cache]
    ELSE IF t > cache[key].expiry
         THEN [value |-> Null, cache |-> Remove(cache, key)]
         ELSE [value |-> cache[key].value, cache |-> cache]

\* const ttl = customTtl || this.ttl  (0 and undefined are both falsy)
EffectiveTtl(customTtl, defaultTtl) ==
    IF customTtl.given /\ customTtl.ms # 0 THEN customTtl.ms ELSE defaultTtl

\* set(key, value, customTtl)
CacheSetIfAbsent(cache, key, value, customTtl, defaultTtl, t) ==
    IF key \in DOMAIN cache
    THEN cache
    ELSE Put(cache, key,
             [value |-> value, expiry |-> t + EffectiveTtl(customTtl, defaultTtl)])

CacheSet(cache, key, value, customTtl, defaultTtl, t) ==
    Put(cache, key,
        [value |-> value, expiry |-> t + EffectiveTtl(customTtl, defaultTtl)])

\* delete(key)
CacheDelete(cache, key) == Remove(cache, key)

\* A cleanup that also drops the entries expiring at this very instant.
CacheCleanupEager(cache, t) ==
    [k \in {x \in DOMAIN cache : t < cache[x].expiry} |-> cache[k]]

\* cleanup()
CacheCleanup(cache, t) ==
    [k \in {x \in DOMAIN cache : ~(t > cache[x].expiry)} |-> cache[k]]

\* clear()
CacheClear(cache) == EmptyCache


(***************************************************************************)
(* callGeminiAPI(prompt, useCache = true, cacheTtl = 3600000,              *)
(*               fallbackFn = null)                                        *)
(* The function has one await that suspends it, the axios.post: the code   *)
(* up to it (the cache lookup) is one atomic segment, the code after it    *)
(* (caching the text, or the catch blocks and the fallback) another.       *)
(***************************************************************************)
\* generateHash: the md5 digest of the string, a value determined by it
generateHash(str) == <<"md5", str>>

\* What the await of axios.post can give:
\*   "ok"       a 200 whose first candidate holds a text part;
\*   "rejected" the promise rejects (network error, timeout, non-2xx status);
\*   "nocand"   a 200 without candidates[0].content.parts[0], so that reading
\*              .text throws a TypeError inside the inner try;
\*   "notext"   a 200 whose first part has no text field: .text is undefined.
ResponseKinds == {"ok", "rejected", "nocand", "notext"}
Response(kind, text) == [kind |-> kind, text |-> text]
Throws(response) == response.kind \in {"rejected", "nocand"}

\* const generatedText = response.data.candidates[0].content.parts[0].text
GeneratedText(response) ==
    IF response.kind = "ok" THEN Str(response.text) ELSE Undefined

\* The fallback functions a caller of the wrapper may pass: none (null), a
\* function returning a text derived from the prompt, a function that throws.
FallbackText(prompt) == <<"F(", prompt, ")">>

Returned(value) == [kind |-> "return", value |-> value]
Thrown == [kind |-> "throw", value |-> Str(<<"Failed to generate content with AI">>)]
Pending == [kind |-> "none", value |-> Undefined]

(***************************************************************************)
(* The fallback functions the feature functions pass to callGeminiAPI.     *)
(* They get the prompt, and read from it what the feature function put     *)
(* into it.                                                                *)
(***************************************************************************)
\* lines 208-268: the answer is read back from the prompt
categoryPredictionFallback(prompt) ==
    LET categories == [i \in DOMAIN prompt.categories |-> Trim(prompt.categories[i])]
        taskTitle == ToLowerCase(UpToQuote(prompt.taskTitle))
        Matches(category) ==
            Includes(taskTitle, ToLowerCase(category))
                \/ Includes(ToLowerCase(category), taskTitle)
        matching == MinIndex({i \in DOMAIN categories : Matches(categories[i])})
        IsHighest(i) == /\ prompt.usage[i] > 0
                        /\ \A j \in DOMAIN prompt.usage :
                              /\ prompt.usage[j] <= prompt.usage[i]
                              /\ (j < i => prompt.usage[j] < prompt.usage[i])
        highest == {i \in DOMAIN prompt.usage : IsHighest(i)}
    IN  IF categories = << >> THEN Null
        ELSE IF taskTitle # << >> /\ matching # 0 THEN Str(categories[matching])
        ELSE IF highest # {} THEN Str(Trim(prompt.categories[CHOOSE i \in highest : TRUE]))
        ELSE Str(categories[1])

\* lines 428-464: summary is the argument of the feature function
descriptionFallback(prompt, summary) ==
    LET extractedTitle == UpToQuote(prompt.title)
        extractedSummary == UpToQuote(prompt.summary)
        \* lines 441-442: the sentences of more than ten characters
        IsPoint(sentence) == Len(Trim(sentence)) > 10
        points == SelectSeq(Split(extractedSummary, {".", "!", "?"}), IsPoint)
        keyPoints == [i \in DOMAIN points |-> Trim(points[i])]
    IN  IF extractedTitle = << >> \/ extractedSummary = << >> THEN Str(summary)
        ELSE Str(<<"# ">> \o extractedTitle \o <<"\n", "\n", "## Overview", "\n">>
                 \o extractedSummary \o <<"\n", "\n">>
                 \o (IF Len(keyPoints) > 1
                     THEN <<"## Key Points", "\n">>
                              \o Join([i \in DOMAIN keyPoints |->
                                          <<"- ">> \o keyPoints[i] \o <<".", "\n">>], << >>)
                              \o <<"\n">>
                     ELSE << >>)
                 \o <<"## Implementation Details", "\n",
                      "This task involves implementing changes related to ">>
                 \o ToLowerCase(extractedTitle)
                 \o <<". Please ensure all requirements are met and tested thoroughly before completion.",
                      "\n", "\n", "## Acceptance Criteria", "\n",
                      "- All functionality works as described in the overview", "\n",
                      "- Code is well-documented and follows project standards", "\n",
                      "- Tests are included where appropriate", "\n">>)

PersonName(person) ==
    IF person.t = "object" THEN person.o.firstName \o <<" ">> \o person.o.lastName
    ELSE <<"Unassigned">>

\* lines 554-577: criticalTasks and overdueTasks are those of the feature
\* function, the day counts are taken when the fallback runs
reportFallback(criticalTasks, overdueTasks, t) ==
    Str(<<"\n", "## Executive Summary: Critical and Overdue Tasks", "\n", "\n",
          "### Overview", "\n", "The system currently has ",
          ToString(Len(criticalTasks)), " critical tasks and ",
          ToString(Len(overdueTasks)),
          " overdue tasks that require immediate attention.", "\n", "\n",
          "### Critical Tasks", "\n">>
        \o Join([i \in DOMAIN criticalTasks |->
                    <<"- ">> \o criticalTasks[i].title
                        \o <<" (", criticalTasks[i].priority, " priority, assigned to ">>
                        \o PersonName(criticalTasks[i].assignedTo) \o <<")">>],
                <<"\n">>)
        \o <<"\n", "\n", "### Overdue Tasks", "\n">>
        \o Join([i \in DOMAIN overdueTasks |->
                    <<"- ">> \o overdueTasks[i].title
                        \o <<" (", ToString((t - overdueTasks[i].dueDate.ms) \div DayMs),
                             " days overdue, assigned to ">>
                        \o PersonName(overdueTasks[i].assignedTo) \o <<")">>],
                <<"\n">>)
        \o <<"\n", "\n", "### Recommendations", "\n",
             "1. Address the overdue tasks immediately, especially those with high or urgent priority",
             "\n",
             "2. Review resource allocation for team members with multiple critical or overdue tasks",
             "\n",
             "3. Consider implementing stricter deadline monitoring to prevent future overdue tasks",
             "\n", "\n",
             "This report was generated automatically based on current task data.",
             "\n", " ">>)

\* lines 649-660.  Line 651 reads the prefix it is declaring when the
\* prompt does not match: a ReferenceError
titleSuggestionsFallbackThrows(prompt) == UpToQuote(prompt.prefix) = << >>

\* the five titles of lines 653-659, 692-698 and 707-713
StaticSuggestions(prefix) ==
    <<prefix \o <<" task">>, prefix \o <<" project">>, prefix \o <<" review">>,
      prefix \o <<" update">>, prefix \o <<" meeting">>>>

\* JSON.stringify of the five titles
titleSuggestionsFallback(prompt) ==
    LET items == StaticSuggestions(UpToQuote(prompt.prefix))
    IN  Str(<<"[">>
            \o Join([i \in DOMAIN items |-> <<"\"">> \o items[i] \o <<"\"">>], <<",">>)
            \o <<"]">>)

\* fallbackFn(prompt) at line 112.  A function value is its name and the
\* variables of the caller it closes over.
CallFallback(fallbackFn, closure, prompt, t) ==
    CASE fallbackFn = "throws" -> Thrown
      [] fallbackFn = "returns" -> Returned(Str(FallbackText(prompt)))
      [] fallbackFn = "categoryPredictionFallback" ->
            Returned(categoryPredictionFallback(prompt))
      [] fallbackFn = "descriptionFallback" ->
            Returned(descriptionFallback(prompt, closure))
      [] fallbackFn = "reportFallback" ->
            Returned(reportFallback(closure[1], closure[2], t))
      [] fallbackFn = "titleSuggestionsFallback" ->
            IF titleSuggestionsFallbackThrows(prompt) THEN Thrown
            ELSE Returned(titleSuggestionsFallback(prompt))


\* lines 64-74: the lookup.  hit: the function returns cachedResponse.
WrapperLookup(cache, prompt, useCache, t) ==
    IF useCache
    THEN LET g == CacheGet(cache, generateHash(prompt), t)
         IN  [hit |-> Truthy(g.value), value |-> g.value, cache |-> g.cache]
    ELSE [hit |-> FALSE, value |-> Null, cache |-> cache]

\* lines 70-73: if (cachedResponse) { return cachedResponse; }
EarlyReturnMissing(lookup) == FALSE

EarlyReturn(lookup) == lookup.hit

\* lines 97-122: the code that runs when the axios.post promise settles.
WrapperSettle(cache, prompt, useCache, cacheTtl, fallbackFn, closure, response, t) ==
    IF ~Throws(response)
    THEN [outcome |-> Returned(GeneratedText(response)),
          cache |-> IF useCache
                    THEN CacheSet(cache, generateHash(prompt), GeneratedText(response),
                                  Ttl(cacheTtl), MediumTtl, t)
                    ELSE cache,
          wrote |-> useCache]
    ELSE [outcome |-> IF fallbackFn # "none"
                      THEN CallFallback(fallbackFn, closure, prompt, t)
                      ELSE Thrown,
          cache |-> cache,
          wrote |-> FALSE]

(***************************************************************************)
(* Invocations.  Two slots run asynchronous calls concurrently on the one  *)
(* event loop; a slot whose call has settled can start the next call.      *)
(* Beside the call's own state (pc, arguments, result) a slot records what *)
(* the call did: hit, remoteCalls, response, and whether it changed the    *)
(* medium-tier map (touched), whether it was started while the other slot  *)
(* was in flight on the same cache key (concurrent), whether it is the     *)
(* latest writer of its key (lastWriter), and whether the other slot       *)
(* operated on its key (interleaved), or set it (keySetByOther), between   *)
(* its lookup and its settling.                                            *)
(***************************************************************************)
Slots == {"a", "b"}
Other(s) == IF s = "a" THEN "b" ELSE "a"

Prompts == {"p1", "p2"}
Texts == {<< >>, <<"A">>, <<"B">>}
TtlArgs == {NoTtl, Ttl(0), Ttl(ShortTtl)}
FallbackFns == {"none", "returns", "throws"}

IdleSlot ==
    [pc |-> "idle", fn |-> "", prompt |-> "", useCache |-> FALSE, cacheTtl |-> 0,
     fallbackFn |-> "none", hit |-> FALSE, remoteCalls |-> 0,
     response |-> Response("none", << >>), result |-> Pending,
     touched |-> FALSE, wrote |-> FALSE, concurrent |-> FALSE,
     lastWriter |-> FALSE, interleaved |-> FALSE, keySetByOther |-> FALSE,
     args |-> << >>, ctx |-> << >>, key |-> << >>, call |-> Pending, dbCalls |-> 0,
     prev |-> [same |-> FALSE, result |-> Pending, dbCalls |-> 0,
               fn |-> "", args |-> << >>, key |-> << >>]]

InvIdle == [s \in Slots |-> IdleSlot]

\* the default parameter value applies when the argument is omitted
CacheTtlParam(arg) == IF arg.given THEN arg.ms ELSE DefaultCacheTtl

InFlight(r) == r.pc = "awaitRemote"
SameKey(r, prompt) == r.fn = "callGeminiAPI" /\ r.useCache /\ r.prompt = prompt

\* The other slot's record after this slot operated on the medium-tier entry
\* of `prompt` (a lookup, or a set when wroteKey).
Observe(r, prompt, didOp, wroteKey) ==
    [r EXCEPT !.interleaved = @ \/ (didOp /\ InFlight(r) /\ SameKey(r, prompt)),
              !.keySetByOther = @ \/ (wroteKey /\ InFlight(r) /\ SameKey(r, prompt)),
              !.lastWriter = @ /\ ~(wroteKey /\ SameKey(r, prompt))]

\* callGeminiAPI is called: lines 62-95, up to the await of axios.post
CallStart(s, prompt, useCache, ttlArg, fallbackFn) ==
    LET l == WrapperLookup(mediumTermCache, prompt, useCache, now)
        o == inv[Other(s)]
        r == [IdleSlot EXCEPT
                !.fn = "callGeminiAPI", !.prompt = prompt, !.useCache = useCache,
                !.cacheTtl = CacheTtlParam(ttlArg), !.fallbackFn = fallbackFn,
                !.hit = l.hit,
                !.touched = (l.cache # mediumTermCache),
                !.concurrent = useCache /\ InFlight(o) /\ SameKey(o, prompt)
                               /\ ~o.keySetByOther,
                !.pc = IF EarlyReturn(l) THEN "done" ELSE "awaitRemote",
                !.remoteCalls = IF EarlyReturn(l) THEN 0 ELSE 1,
                !.result = IF EarlyReturn(l) THEN Returned(l.value) ELSE Pending]
    IN  /\ inv[s].pc \in {"idle", "done"}
        /\ started < MaxCalls
        /\ started' = started + 1
        /\ mediumTermCache' = l.cache
        /\ inv' = [inv EXCEPT ![s] = r,
                               ![Other(s)] = Observe(@, prompt, useCache, FALSE)]
        /\ UNCHANGED <<users, requests, now, ticks, shortTermCache, lastOp>>

\* the axios.post promise settles: lines 97-122
CallSettle(s, response) ==
    LET r == inv[s]
        w == WrapperSettle(mediumTermCache, r.prompt, r.useCache, r.cacheTtl,
                           r.fallbackFn, r.ctx, response, now)
    IN  /\ r.pc = "awaitRemote"
        /\ r.fn = "callGeminiAPI"
        /\ mediumTermCache' = w.cache
        /\ inv' = [inv EXCEPT
                     ![s] = [r EXCEPT !.pc = "done", !.response = response,
                                      !.result = w.outcome,
                                      !.wrote = w.wrote,
                                      !.touched = @ \/ (w.cache # mediumTermCache),
                                      !.lastWriter = w.wrote],
                     ![Other(s)] = Observe(@, r.prompt, w.wrote, w.wrote)]
        /\ UNCHANGED <<users, requests, now, ticks, shortTermCache, lastOp, started>>

Responses ==
    {Response("ok", t) : t \in Texts}
        \cup {Response(k, << >>) : k \in ResponseKinds \ {"ok"}}

(***************************************************************************)
(* The admin and user-management routes.  A request runs as a chain of     *)
(* middleware and a handler on the one event loop: authenticateToken       *)
(* awaits the lookup of the token's user, the rest of the chain and the    *)
(* handler up to its first query run when that lookup settles, and each    *)
(* further query of the handler settles in a step of its own, so that the  *)
(* requests of two clients interleave at the awaits.  Of the User table    *)
(* the model keeps the columns the routes read and write: role, isActive.  *)
(***************************************************************************)
UserIds == {"a1", "a2", "u1"}
Clients == {"c1", "c2"}

\* two administrators and a user, all active (isActive defaults to true)
InitUsers ==
    [id \in UserIds |-> [role |-> IF id = "u1" THEN "USER" ELSE "ADMIN",
                         isActive |-> TRUE]]

\* prisma.user.findUnique({ where: { id }, select: {...} }); null when no row
NoUser == [id |-> "", role |-> "", isActive |-> FALSE]
FindUnique(table, id) ==
    IF id \in DOMAIN table
    THEN [id |-> id, role |-> table[id].role, isActive |-> table[id].isActive]
    ELSE NoUser

\* A request: its route, the bearer token ("none": no Authorization header,
\* "bad": a token jwt.verify rejects, otherwise the userId of a valid
\* token), params and body; req.user; the middleware that called next()
\* (passed), whether the handler was entered, the response status, and
\* whether a query of this request deactivated or deleted the row of
\* req.user (changedSelf).  A boolean of the JSON body is "true" or "false",
\* a field that is not sent "absent".
NoRequest ==
    [pc |-> "idle", route |-> "", token |-> "none", target |-> "", ids |-> {},
     action |-> "", isActive |-> "absent", role |-> "absent", user |-> NoUser,
     passed |-> {}, handler |-> FALSE, stage |-> "", status |-> 0,
     changedSelf |-> FALSE]

NoRequests == [c \in Clients |-> NoRequest]

\* res.status(code).json(...)
Respond(req, code) == [req EXCEPT !.pc = "done", !.status = code]

\* The handler up to its first query: validationResult and the guards.
HandlerBegin(req) ==
    LET self == req.user.id
        Query(stage) == [req EXCEPT !.pc = "awaitDb", !.stage = stage]
    IN  CASE req.route = "status" ->
                IF req.isActive \notin {"true", "false"} THEN Respond(req, 400)
                ELSE IF self = req.target /\ req.isActive = "false"
                     THEN Respond(req, 400)
                ELSE Query("write")
          [] req.route = "bulk" ->
                IF req.action \notin {"activate", "deactivate", "delete"}
                   \/ req.ids = {}
                THEN Respond(req, 400)
                ELSE IF self \in req.ids THEN Respond(req, 400)
                ELSE Query(IF req.action = "delete" THEN "find" ELSE "write")
          [] req.route = "update" ->
                IF req.role \notin {"absent", "USER", "ADMIN"} THEN Respond(req, 400)
                ELSE Query("write")
          [] req.route = "delete" ->
                IF self = req.target THEN Respond(req, 400)
                ELSE Query("find")

\* Check if user is admin
requireAdmin(req) ==
    IF req.user.role # "ADMIN" THEN Respond(req, 403)
    ELSE HandlerBegin([req EXCEPT !.passed = @ \cup {"requireAdmin"},
                                  !.handler = TRUE])

\* Verify JWT token: up to the await of prisma.user.findUnique
authenticateTokenBegin(req) ==
    IF req.token \in {"none", "bad"} THEN Respond(req, 401)
    ELSE [req EXCEPT !.pc = "awaitUser"]

\* Verify JWT token: the lookup settles (dbOk: with rows; otherwise it
\* rejects and the catch answers 401); next() runs the rest of the chain,
\* which for every one of the four routes is requireAdmin and the handler
authenticateTokenResume(req, table, dbOk) ==
    LET user == FindUnique(table, req.token)
    IN  IF ~dbOk THEN Respond(req, 401)
        ELSE IF user = NoUser \/ ~user.isActive THEN Respond(req, 401)
        ELSE requireAdmin([req EXCEPT !.user = user,
                                      !.passed = @ \cup {"authenticateToken"}])

\* A query of the handler settles: the request and the table afterwards.
\* update and delete of a missing row throw P2025 (404), updateMany and
\* deleteMany skip missing rows, any other rejection is answered 500.
HandlerQuery(req, table, dbOk) ==
    LET Out(r, t) == [req |-> r, users |-> t]
        SetActive(t, ids, b) ==
            [id \in DOMAIN t |-> IF id \in ids THEN [t[id] EXCEPT !.isActive = b]
                                 ELSE t[id]]
        Without(t, ids) == [id \in DOMAIN t \ ids |-> t[id]]
        updateData(row) ==
            [role |-> IF req.role # "absent" THEN req.role ELSE row.role,
             isActive |-> IF req.isActive \in {"true", "false"}
                          THEN req.isActive = "true" ELSE row.isActive]
    IN  IF ~dbOk THEN Out(Respond(req, 500), table)
        ELSE IF req.stage = "find"
             THEN Out([req EXCEPT !.stage = "write"], table)
        ELSE CASE req.route = "status" ->
                    IF req.target \notin DOMAIN table THEN Out(Respond(req, 404), table)
                    ELSE Out(Respond(req, 200),
                             SetActive(table, {req.target}, req.isActive = "true"))
               [] req.route = "bulk" ->
                    Out(Respond(req, 200),
                        IF req.action = "delete" THEN Without(table, req.ids)
                        ELSE SetActive(table, req.ids, req.action = "activate"))
               [] req.route = "update" ->
                    IF req.target \notin DOMAIN table THEN Out(Respond(req, 404), table)
                    ELSE Out(Respond(req, 200),
                             [table EXCEPT ![req.target] = updateData(@)])
               [] req.route = "delete" ->
                    IF req.target \notin DOMAIN table THEN Out(Respond(req, 404), table)
                    ELSE Out(Respond(req, 200), Without(table, {req.target}))

Init ==
    /\ now = 0
    /\ ticks = 0
    /\ shortTermCache = EmptyCache
    /\ mediumTermCache = EmptyCache
    /\ lastOp = [op |-> "none"]
    /\ inv = InvIdle
    /\ started = 0
    /\ users = InitUsers
    /\ requests = NoRequests

Advance(d) ==
    /\ ticks < MaxTicks
    /\ now' = now + d
    /\ ticks' = ticks + 1
    /\ UNCHANGED <<users, requests, shortTermCache, mediumTermCache, lastOp, inv, started>>

AdvanceSteps == {1, ShortTtl}

\* One caller at a time, every combination of arguments and every response.
NextCall ==
    \/ \E d \in AdvanceSteps : Advance(d)
    \/ \E p \in Prompts, u \in BOOLEAN, ttl \in TtlArgs, f \in FallbackFns :
           CallStart("a", p, u, ttl, f)
    \/ \E rsp \in Responses : CallSettle("a", rsp)

SpecCall == Init /\ [][NextCall]_vars

\* Two callers at once.
Next ==
    \/ \E d \in AdvanceSteps : Advance(d)
    \/ \E s \in Slots, p \in Prompts, f \in {"none", "returns"} :
           CallStart(s, p, TRUE, Ttl(ShortTtl), f)
    \/ \E s \in Slots, rsp \in Responses : CallSettle(s, rsp)

Spec == Init /\ [][Next]_vars

UserId == <<"u1">>
OtherUserId == <<"u2">>

(***************************************************************************)
(* Feature functions.  Each is an async function whose body is one try     *)
(* block with a catch that returns the feature's "no result" value.  It is *)
(* suspended at its awaits: the prisma query (awaitDb), and the call of    *)
(* callGeminiAPI, which itself is suspended at axios.post (awaitRemote)    *)
(* and whose settling resumes the feature in a later job (awaitCall).      *)
(* A machine m = [r, short, medium] is a slot record with the two cache    *)
(* maps as the running code sees them.                                     *)
(***************************************************************************)
Machine(r) == [r |-> r, short |-> shortTermCache, medium |-> mediumTermCache]

\* return value: the promise of the feature function is fulfilled
Finish(m, value) == [m EXCEPT !.r.pc = "done", !.r.result = Returned(value)]

\* an exception that nothing catches: the promise of the feature function
\* is rejected
Uncaught(m, value) == [m EXCEPT !.r.pc = "done", !.r.result = Thrown]

\* the catch block around the body of a feature function returns value:
\* lines 347-350, 478-481, 581-584, 705-714, 862-871
Caught(m, value) == Finish(m, value)

\* await callGeminiAPI(prompt, true, cacheTtl, fallbackFn): lines 62-95 run
\* in the caller's segment; on a cache hit the wrapper returns at once and
\* the feature resumes in a later job
EnterWrapper(m, prompt, cacheTtl, fallbackFn, t) ==
    LET l == WrapperLookup(m.medium, prompt, TRUE, t)
    IN  [m EXCEPT !.medium = l.cache,
                  !.r.prompt = prompt,
                  !.r.useCache = TRUE,
                  !.r.cacheTtl = cacheTtl,
                  !.r.fallbackFn = fallbackFn,
                  !.r.hit = l.hit,
                  !.r.touched = (l.cache # m.medium),
                  !.r.pc = IF EarlyReturn(l) THEN "awaitCall" ELSE "awaitRemote",
                  !.r.remoteCalls = @ + (IF EarlyReturn(l) THEN 0 ELSE 1),
                  !.r.call = IF EarlyReturn(l) THEN Returned(l.value) ELSE Pending]

(***************************************************************************)
(* generateTaskPrioritization(userId, userTasks): lines 717-872            *)
(***************************************************************************)
NoDate == [given |-> FALSE, ms |-> 0]
Date(ms) == [given |-> TRUE, ms |-> ms]

Task(id, status, priority, dueDate) ==
    [id |-> <<id>>, title |-> <<id>>, status |-> status, priority |-> priority,
     dueDate |-> dueDate, assignedTo |-> Null,
     createdBy |-> Obj([firstName |-> <<"Ada">>, lastName |-> <<"Lovelace">>])]

\* lines 727-729
IsActive(task) == task.status # "COMPLETED" /\ task.status # "CANCELLED"

\* lines 739-740
PrioritizationKey(userId, activeTasks) ==
    <<"task_prioritization_">> \o userId \o <<"_">> \o
    <<generateHash(Join([i \in DOMAIN activeTasks |->
                           activeTasks[i].id \o <<"-", activeTasks[i].status, "-",
                                                  activeTasks[i].priority, "-">>
                               \o (IF activeTasks[i].dueDate.given
                                   THEN <<ToString(activeTasks[i].dueDate.ms)>>
                                   ELSE <<"null">>)],
                        <<"|">>))>>

\* task.dueDate && new Date(task.dueDate) < new Date()
IsOverdue(task, t) == task.dueDate.given /\ task.dueDate.ms < t

\* lines 750-801: tasksForAI in the prompt; daysUntilDue is
\* Math.ceil((dueDate - now) / DayMs)
PrioritizationPrompt(activeTasks, t) ==
    LET TaskForAI(task) ==
            [id |-> task.id, title |-> task.title, status |-> task.status,
             priority |-> task.priority, dueDate |-> task.dueDate,
             daysUntilDue |-> IF task.dueDate.given
                              THEN Some(-((t - task.dueDate.ms) \div DayMs))
                              ELSE [given |-> FALSE, v |-> 0],
             isOverdue |-> IsOverdue(task, t)]
    IN  [feature |-> "prioritization",
         tasks |-> [i \in DOMAIN activeTasks |-> TaskForAI(activeTasks[i])]]

\* line 826
PriorityOrder(priority) ==
    CASE priority = "URGENT" -> 0
      [] priority = "HIGH" -> 1
      [] priority = "MEDIUM" -> 2
      [] priority = "LOW" -> 3

\* the comparator without lines 819-823: overdue tasks are not put first
CompareTasksNoOverdue(a, b, t) ==
    IF PriorityOrder(a.priority) # PriorityOrder(b.priority)
    THEN PriorityOrder(a.priority) - PriorityOrder(b.priority)
    ELSE IF a.dueDate.given /\ b.dueDate.given THEN a.dueDate.ms - b.dueDate.ms
    ELSE IF a.dueDate.given THEN -1
    ELSE IF b.dueDate.given THEN 1
    ELSE 0

\* lines 818-839: the comparator, negative when a sorts before b
CompareTasks(a, b, t) ==
    IF IsOverdue(a, t) /\ ~IsOverdue(b, t) THEN -1
    ELSE IF ~IsOverdue(a, t) /\ IsOverdue(b, t) THEN 1
    ELSE IF PriorityOrder(a.priority) # PriorityOrder(b.priority)
         THEN PriorityOrder(a.priority) - PriorityOrder(b.priority)
    ELSE IF a.dueDate.given /\ b.dueDate.given THEN a.dueDate.ms - b.dueDate.ms
    ELSE IF a.dueDate.given THEN -1
    ELSE IF b.dueDate.given THEN 1
    ELSE 0

\* The comparators of the calls of Array.prototype.sort: lines 818-839,
\* 304-306 (newest first) and 509-511 (earliest due date first)
Compare(order, a, b, t) ==
    CASE order = "priority" -> CompareTasks(a, b, t)
      [] order = "createdAt" -> b.createdAt - a.createdAt
      [] order = "dueDate" -> a.dueDate.ms - b.dueDate.ms

\* Array.prototype.sort is stable: an element goes before the first one it
\* compares less than
RECURSIVE Insert(_, _, _, _)
Insert(order, x, sorted, t) ==
    IF sorted = << >> THEN <<x>>
    ELSE IF Compare(order, x, Head(sorted), t) < 0 THEN <<x>> \o sorted
    ELSE <<Head(sorted)>> \o Insert(order, x, Tail(sorted), t)

RECURSIVE Sort(_, _, _)
Sort(order, seq, t) ==
    IF seq = << >> THEN << >>
    ELSE Insert(order, seq[Len(seq)], Sort(order, SubSeq(seq, 1, Len(seq) - 1), t), t)

\* lines 841-850
FallbackPrioritization(activeTasks, t) ==
    LET top == Slice(Sort("priority", activeTasks, t), 5)
    IN  [prioritizedTasks |->
             [i \in DOMAIN top |->
                 [id |-> top[i].id, title |-> top[i].title,
                  reason |-> <<top[i].priority, " priority">>
                                \o (IF top[i].dueDate.given
                                    THEN <<", due ", ToString(top[i].dueDate.ms)>>
                                    ELSE << >>)]],
         logic |-> <<"Tasks are prioritized based on urgency, priority level, and due date.">>,
         atRiskTasks |-> << >>,
         suggestions |-> << >>]

\* text.match(/\{[\s\S]*\}/) and text.match(/\[.*\]/s): from the first
\* opening character to the last closing one after it; << >> stands for null
SpanMatch(text, open, close) ==
    LET opens == {i \in DOMAIN text : text[i] = open}
        closes == {i \in DOMAIN text : text[i] = close /\ i > MinIndex(opens)}
        last == CHOOSE i \in closes : \A j \in closes : j <= i
    IN  IF opens = {} \/ closes = {} THEN << >>
        ELSE SubSeq(text, MinIndex(opens), last)

\* The JSON documents that occur: an empty object, and an object with the
\* four fields the prompt asks for
FullJsonBody ==
    "\"prioritizedTasks\":[{\"id\":\"t2\",\"title\":\"t2\",\"reason\":\"ai\"}],\"logic\":\"ai\",\"atRiskTasks\":[],\"suggestions\":[]"

\* JSON.parse(jsonMatch[0]) throws a SyntaxError unless the text is a JSON
\* document
JsonParses(text) == text \in {<<"{", "}">>, <<"{", FullJsonBody, "}">>}

JsonParse(text) ==
    IF text = <<"{", "}">>
    THEN [k \in {} |-> << >>]
    ELSE [prioritizedTasks |-> <<[id |-> <<"t2">>, title |-> <<"t2">>, reason |-> <<"ai">>]>>,
          logic |-> <<"ai">>, atRiskTasks |-> << >>, suggestions |-> << >>]

\* lines 864-870
PrioritizationErrorResult ==
    Obj([message |-> <<"Error generating task prioritization. Using default sorting by priority and due date.">>,
         prioritizedTasks |-> << >>,
         logic |-> <<"Default sorting by priority and due date.">>,
         atRiskTasks |-> << >>,
         suggestions |-> << >>])

\* lines 718-803: up to the await of callGeminiAPI
PrioritizationBegin(m, userTasks, t) ==
    IF ~userTasks.given \/ Len(userTasks.v) = 0
    THEN Finish(m, Obj([message |-> <<"No tasks found to prioritize.">>,
                        prioritizedTasks |-> << >>]))
    ELSE LET active == SelectSeq(userTasks.v, IsActive)
             key == PrioritizationKey(UserId, active)
             g == CacheGet(m.medium, key, t)
             m1 == [m EXCEPT !.medium = g.cache, !.r.ctx = active, !.r.key = key]
         IN  IF Len(active) = 0
             THEN Finish(m, Obj([message |-> <<"No active tasks found to prioritize.">>,
                                 prioritizedTasks |-> << >>]))
             ELSE IF Truthy(g.value) THEN Finish(m1, g.value)
             \* line 803: callGeminiAPI(prompt), the other parameters take
             \* their defaults, fallbackFn = null
             ELSE EnterWrapper(m1, PrioritizationPrompt(active, t), DefaultCacheTtl,
                               "none", t)

\* lines 805-871: after the await of callGeminiAPI
PrioritizationResume(m, t) ==
    IF m.r.call.kind = "throw" THEN Caught(m, PrioritizationErrorResult)
    ELSE LET text == m.r.call.value
             \* lines 806-851: a TypeError of .match on a value that is not a
             \* string and a SyntaxError of JSON.parse are caught at line 814
             parsed == IF text.t = "string" /\ SpanMatch(text.s, "{", "}") # << >>
                          /\ JsonParses(SpanMatch(text.s, "{", "}"))
                       THEN JsonParse(SpanMatch(text.s, "{", "}"))
                       ELSE FallbackPrioritization(m.r.ctx, t)
             result == Obj(Spread(
                 [message |-> <<"Here are your prioritized tasks based on urgency, importance, and deadlines.">>],
                 parsed))
         IN  Finish([m EXCEPT !.medium = CacheSet(m.medium, m.r.key, result,
                                                  Ttl(PrioritizationTtl), MediumTtl, t)],
                    result)

(***************************************************************************)
(* predictNextCategory(userId, userTasks = null, taskTitle = null):        *)
(* lines 132-351                                                           *)
(***************************************************************************)
HistoryTask(id, title, category, createdAt) ==
    [id |-> <<id>>, title |-> title, category |-> category, createdAt |-> createdAt]

\* lines 155-156: taskIds + (taskTitle || '')
PredictionKey(userId, userTasks, taskTitle) ==
    <<"predict_category_">> \o userId \o <<"_">> \o
    <<generateHash(Join([i \in DOMAIN Slice(userTasks, 10) |-> userTasks[i].id], <<",">>)
                       \o (IF Truthy(taskTitle) THEN taskTitle.s ELSE << >>))>>

HasCategory(task) == Truthy(task.category)

\* lines 169-171
CategoriesOf(userTasks) ==
    LET with == SelectSeq(userTasks, HasCategory)
    IN  Distinct([i \in DOMAIN with |-> with[i].category.s])

\* line 177
UsageOf(userTasks, category) ==
    Cardinality({i \in DOMAIN userTasks :
                    userTasks[i].category = Str(category)})

\* lines 181-205
CategoryPrompt(userTasks, taskTitle) ==
    LET categories == CategoriesOf(userTasks)
        HasBoth(task) == Truthy(task.title) /\ Truthy(task.category)
        recent == SelectSeq(Slice(userTasks, 10), HasBoth)
    IN  [feature |-> "category",
         taskTitle |-> taskTitle.s,
         categories |-> categories,
         usage |-> [i \in DOMAIN categories |-> UsageOf(userTasks, categories[i])],
         recentTasks |-> [i \in DOMAIN recent |->
                            <<recent[i].title.s, recent[i].category.s>>]]

\* line 271: .trim().replace(/^"(.+)"$/, '$1').replace(/\.$/, '')
CleanPrediction(text) ==
    LET trimmed == Trim(text)
        unquoted == IF /\ Len(trimmed) >= 3
                       /\ trimmed[1] = "\""
                       /\ trimmed[Len(trimmed)] = "\""
                       /\ \A i \in 2..(Len(trimmed) - 1) : trimmed[i] # "\n"
                    THEN SubSeq(trimmed, 2, Len(trimmed) - 1)
                    ELSE trimmed
    IN  IF unquoted # << >> /\ unquoted[Len(unquoted)] = "."
        THEN SubSeq(unquoted, 1, Len(unquoted) - 1)
        ELSE unquoted

\* lines 298-346: the prediction from the history alone, Null when the
\* history names no category
StatisticalPrediction(userTasks) ==
    LET sortedTasks == Sort("createdAt", userTasks, 0)
        recent == SelectSeq(Slice(sortedTasks, 5), HasCategory)
        recentCategories == [i \in DOMAIN recent |-> recent[i].category.s]
        categories == CategoriesOf(userTasks)
        mostRecentCategory == recentCategories[1]
        first3 == Slice(recentCategories, 3)
        \* lines 338-341: entries in insertion order, sorted by count,
        \* largest first, a stable sort
        IsMostFrequent(i) ==
            \A j \in DOMAIN categories :
                /\ UsageOf(userTasks, categories[j]) <= UsageOf(userTasks, categories[i])
                /\ (j < i => UsageOf(userTasks, categories[j])
                                < UsageOf(userTasks, categories[i]))
    IN  IF categories = << >> THEN Null
        ELSE IF /\ Len(recentCategories) >= 2
                /\ Cardinality({i \in DOMAIN first3 : first3[i] = mostRecentCategory}) >= 2
             THEN Str(mostRecentCategory)
        ELSE Str(categories[CHOOSE i \in DOMAIN categories : IsMostFrequent(i)])

\* lines 298-346 with the shortTermCache.set of the prediction
PredictStatistical(m, t) ==
    LET prediction == StatisticalPrediction(m.r.ctx)
    IN  IF prediction = Null THEN Finish(m, Null)
        ELSE Finish([m EXCEPT !.short = CacheSet(m.short, m.r.key, prediction,
                                                 Ttl(ShortTtl), ShortTtl, t)],
                    prediction)

\* lines 149-296: from the task list to the await of callGeminiAPI
PredictWithTasks(m, userTasks, taskTitle, t) ==
    IF Len(userTasks) = 0 THEN Finish(m, Null)
    ELSE LET key == PredictionKey(UserId, userTasks, taskTitle)
             g == CacheGet(m.short, key, t)
             m1 == [m EXCEPT !.short = g.cache, !.r.ctx = userTasks, !.r.key = key]
         IN  IF Truthy(g.value) THEN Finish(m1, g.value)
             ELSE IF /\ Truthy(taskTitle)
                     /\ Len(userTasks) >= 5
                     /\ CategoriesOf(userTasks) # << >>
                  THEN EnterWrapper(m1, CategoryPrompt(userTasks, taskTitle), ShortTtl,
                                    "categoryPredictionFallback", t)
             ELSE PredictStatistical(m1, t)

\* lines 133-147: userTasks is fetched when it is not given
PredictBegin(m, userTasks, taskTitle, t) ==
    IF ~userTasks.given
    THEN [m EXCEPT !.r.pc = "awaitDb", !.r.dbCalls = @ + 1]
    ELSE PredictWithTasks(m, userTasks.v, taskTitle, t)

\* the prisma query settles: a rejection is caught at line 347
PredictDbSettle(m, db, t) ==
    IF db.kind = "rejected" THEN Caught(m, Null)
    ELSE PredictWithTasks(m, db.rows, m.r.args.taskTitle, t)

\* a catch at line 292 that would ask the service again instead of falling
\* through to the statistical prediction
PredictResumeRetrying(m, t) ==
    IF m.r.call.kind = "throw" \/ m.r.call.value.t # "string"
    THEN EnterWrapper(m, m.r.prompt, ShortTtl, "categoryPredictionFallback", t)
    ELSE PredictStatistical(m, t)

\* lines 271-296: after the await of callGeminiAPI; an exception of the
\* wrapper and the TypeError of .trim() on a value that is not a string are
\* caught at line 292
PredictResume(m, t) ==
    IF m.r.call.kind = "throw" \/ m.r.call.value.t # "string"
    THEN PredictStatistical(m, t)
    ELSE LET categories == CategoriesOf(m.r.ctx)
             cleanedPrediction == CleanPrediction(m.r.call.value.s)
             Close(c) ==
                 Includes(ToLowerCase(c), ToLowerCase(cleanedPrediction))
                     \/ Includes(ToLowerCase(cleanedPrediction), ToLowerCase(c))
             closestMatch == MinIndex({i \in DOMAIN categories : Close(categories[i])})
             Cached(prediction) ==
                 Finish([m EXCEPT !.short = CacheSet(m.short, m.r.key, Str(prediction),
                                                     Ttl(ShortTtl), ShortTtl, t)],
                        Str(prediction))
         IN  IF \E i \in DOMAIN categories : categories[i] = cleanedPrediction
             THEN Cached(cleanedPrediction)
             ELSE IF closestMatch # 0 THEN Cached(categories[closestMatch])
             ELSE PredictStatistical(m, t)

(***************************************************************************)
(* generateTaskDescription(title, summary, userId = null): lines 360-482   *)
(***************************************************************************)
\* line 367
DescriptionKey(title, summary) == <<"description_", generateHash(title \o summary)>>

\* lines 409-425
DescriptionPrompt(title, summary, recentTasks) ==
    [feature |-> "description", title |-> title, summary |-> summary,
     userContext |-> recentTasks]

\* lines 467-472
CleanDescription(text) ==
    LET DropPrefix(str, literal) ==
            IF StartsWith(str, literal) THEN SubSeq(str, Len(literal) + 1, Len(str))
            ELSE str
    IN
    Trim(DropPrefix(DropPrefix(DropPrefix(Trim(text),
                                          <<"Generated Description:">>),
                               <<"Description:">>),
                    <<"Task Description:">>))

\* lines 409-466
DescribeCallWrapper(m, recentTasks, t) ==
    EnterWrapper(m, DescriptionPrompt(m.r.args.title, m.r.args.summary.s, recentTasks),
                 MediumTtl, "descriptionFallback", t)

\* the function without lines 362-364: an empty summary is looked up and
\* sent like any other
DescribeBeginUnguarded(m, title, summary, userId, t) ==
    LET key == DescriptionKey(title, summary.s)
        g == CacheGet(m.medium, key, t)
        m1 == [m EXCEPT !.medium = g.cache, !.r.key = key, !.r.ctx = summary.s]
    IN  IF Truthy(g.value) THEN Finish(m1, g.value)
        ELSE IF Truthy(userId)
             THEN [m1 EXCEPT !.r.pc = "awaitDb", !.r.dbCalls = @ + 1]
        ELSE DescribeCallWrapper(m1, << >>, t)

\* lines 361-407
DescribeBegin(m, title, summary, userId, t) ==
    IF ~Truthy(summary) \/ Trim(summary.s) = << >> THEN Finish(m, Null)
    ELSE LET key == DescriptionKey(title, summary.s)
             g == CacheGet(m.medium, key, t)
             m1 == [m EXCEPT !.medium = g.cache, !.r.key = key, !.r.ctx = summary.s]
         IN  IF Truthy(g.value) THEN Finish(m1, g.value)
             ELSE IF Truthy(userId)
                  THEN [m1 EXCEPT !.r.pc = "awaitDb", !.r.dbCalls = @ + 1]
             ELSE DescribeCallWrapper(m1, << >>, t)

\* lines 381-407: a rejection of the query is caught at line 403
DescribeDbSettle(m, db, t) ==
    DescribeCallWrapper(m, IF db.kind = "rejected" THEN << >> ELSE Slice(db.rows, 3), t)

\* lines 467-481: an exception of the wrapper and the TypeError of .trim()
\* on a value that is not a string are caught at line 478
DescribeResume(m, t) ==
    IF m.r.call.kind = "throw" \/ m.r.call.value.t # "string"
    THEN Caught(m, m.r.args.summary)
    ELSE LET cleanedDescription == Str(CleanDescription(m.r.call.value.s))
         IN  Finish([m EXCEPT !.medium = CacheSet(m.medium, m.r.key, cleanedDescription,
                                                  Ttl(MediumTtl), MediumTtl, t)],
                    cleanedDescription)

\* lines 514-551: criticalTasksData and overdueTasksData in the prompt
ReportPrompt(criticalTasks, sortedOverdueTasks, t) ==
    LET ReportRow(task) ==
            [title |-> task.title, priority |-> task.priority, status |-> task.status,
             dueDate |-> task.dueDate,
             daysOverdue |-> IF task.dueDate.given
                             THEN (t - task.dueDate.ms) \div DayMs
                             ELSE 0,
             assignedTo |-> PersonName(task.assignedTo),
             createdBy |-> PersonName(task.createdBy)]
    IN
    [feature |-> "report",
     critical |-> [i \in DOMAIN criticalTasks |-> ReportRow(criticalTasks[i])],
     overdue |-> [i \in DOMAIN sortedOverdueTasks |-> ReportRow(sortedOverdueTasks[i])]]

ReportError == Str(<<"Error generating report. Please try again later.">>)

\* lines 490-579
ReportBegin(m, tasks, t) ==
    IF ~tasks.given \/ Len(tasks.v) = 0
    THEN Finish(m, Str(<<"No tasks found for analysis.">>))
    ELSE LET IsCritical(task) == task.priority \in {"HIGH", "URGENT"} /\ IsActive(task)
             criticalTasks == SelectSeq(tasks.v, IsCritical)
             IsOverdueActive(task) == IsOverdue(task, t) /\ IsActive(task)
             overdueTasks == SelectSeq(tasks.v, IsOverdueActive)
             \* lines 520, 530: task.createdBy.firstName throws a TypeError
             \* when the task has no createdBy
             NoCreator(task) == task.createdBy.t # "object"
         IN  IF SelectSeq(criticalTasks \o overdueTasks, NoCreator) # << >>
             THEN Caught(m, ReportError)
             ELSE EnterWrapper([m EXCEPT !.r.ctx = <<criticalTasks, overdueTasks>>],
                               ReportPrompt(criticalTasks, Sort("dueDate", overdueTasks, t), t),
                               MediumTtl, "reportFallback", t)

\* lines 580-584: an exception of the wrapper and the TypeError of .trim()
\* on a value that is not a string are caught at line 581
ReportResume(m, t) ==
    IF m.r.call.kind = "throw" \/ m.r.call.value.t # "string"
    THEN Caught(m, ReportError)
    ELSE Finish(m, Str(Trim(m.r.call.value.s)))

\* line 600
TitleKey(userId, prefix) == <<"title_suggestions_">> \o userId \o <<"_">> \o prefix

\* lines 626-646
TitlePrompt(prefix, userTasks) ==
    [feature |-> "titles", prefix |-> prefix,
     previousTitles |-> [i \in DOMAIN userTasks |-> userTasks[i].title],
     categories |-> CategoriesOf(userTasks)]

\* JSON.parse of the elements of an array of strings and numbers: the
\* elements read, and whether the text was well formed (no SyntaxError)
\* the index of the first double quote of str, 0 when it has none
QuoteIndex(str) == MinIndex({i \in DOMAIN str : str[i] = "\""})

RECURSIVE JsonElements(_)
JsonElements(text) ==
    LET str == TrimStart(text)
        close == QuoteIndex(Tail(str))
        after == TrimStart(IF Head(str) = "\""
                           THEN SubSeq(str, close + 2, Len(str))
                           ELSE Tail(str))
        item == IF Head(str) = "\"" THEN Str(SubSeq(str, 2, close)) ELSE [t |-> "number", n |-> Head(str)]
        rest == JsonElements(Tail(after))
    IN  IF str = << >> THEN [ok |-> FALSE, items |-> << >>]
        ELSE IF Head(str) = "\"" /\ close = 0 THEN [ok |-> FALSE, items |-> << >>]
        ELSE IF Head(str) # "\"" /\ Head(str) \notin {"0", "1", "2", "3", "4", "5", "6", "7", "8", "9"}
             THEN [ok |-> FALSE, items |-> << >>]
        ELSE IF after = << >> THEN [ok |-> TRUE, items |-> <<item>>]
        ELSE IF Head(after) # "," THEN [ok |-> FALSE, items |-> << >>]
        ELSE [ok |-> rest.ok, items |-> <<item>> \o rest.items]

\* JSON.parse(match[0]) of a text that begins with "[" and ends with "]"
JsonParseArray(text) ==
    LET inner == SubSeq(text, 2, Len(text) - 1)
    IN  IF Trim(inner) = << >> THEN [ok |-> TRUE, items |-> << >>]
        ELSE JsonElements(inner)

\* line 683: line.match(/"([^"]+)"/), the first quoted text that is not
\* empty; << >> stands for null
RECURSIVE QuotedText(_)
QuotedText(line) ==
    LET open == QuoteIndex(line)
        rest == SubSeq(line, open + 1, Len(line))
        close == QuoteIndex(rest)
    IN  IF open = 0 \/ close = 0 THEN << >>
        ELSE IF close = 1 THEN QuotedText(rest)
        ELSE SubSeq(rest, 1, close - 1)

\* lines 677-687
LineSuggestions(text) ==
    LET split == Split(text, {"\n"})
        lines == [i \in DOMAIN split |-> Trim(split[i])]
        IsQuoted(line) == StartsWith(line, <<"\"">>) /\ QuotedText(line) # << >>
        quoted == SelectSeq(lines, IsQuoted)
    IN  Slice([i \in DOMAIN quoted |-> Str(QuotedText(quoted[i]))], 5)

StaticList(prefix) ==
    LET titles == StaticSuggestions(prefix)
    IN  List([i \in DOMAIN titles |-> Str(titles[i])])

\* the parsing without lines 671-673 and 686-687: every element of the
\* array, every quoted line
ParseSuggestionsUncut(response, prefix) ==
    IF response.t # "string" THEN StaticList(prefix)
    ELSE IF SpanMatch(response.s, "[", "]") = << >>
         THEN List(LineSuggestions(response.s) \o LineSuggestions(response.s))
    ELSE IF ~JsonParseArray(SpanMatch(response.s, "[", "]")).ok THEN StaticList(prefix)
    ELSE List(JsonParseArray(SpanMatch(response.s, "[", "]")).items)

\* lines 665-699: the TypeError of .match on a value that is not a string
\* and the SyntaxError of JSON.parse are caught at line 689
ParseSuggestions(response, prefix) ==
    IF response.t # "string" THEN StaticList(prefix)
    ELSE IF SpanMatch(response.s, "[", "]") = << >> THEN List(LineSuggestions(response.s))
    ELSE IF ~JsonParseArray(SpanMatch(response.s, "[", "]")).ok THEN StaticList(prefix)
    ELSE LET IsString(item) == item.t = "string"
         IN  List(Slice(SelectSeq(JsonParseArray(SpanMatch(response.s, "[", "]")).items,
                                  IsString), 5))

\* lines 594-623
TitlesBegin(m, prefix, t) ==
    IF ~Truthy(prefix) \/ Len(prefix.s) < 3 THEN Finish(m, List(<< >>))
    ELSE LET key == TitleKey(UserId, prefix.s)
             g == CacheGet(m.short, key, t)
             m1 == [m EXCEPT !.short = g.cache, !.r.key = key]
         IN  IF Truthy(g.value) THEN Finish(m1, g.value)
             ELSE [m1 EXCEPT !.r.pc = "awaitDb", !.r.dbCalls = @ + 1]

\* lines 625-662: a rejection of the query is caught at line 705
TitlesDbSettle(m, db, t) ==
    IF db.kind = "rejected" THEN Caught(m, StaticList(m.r.args.prefix.s))
    ELSE EnterWrapper(m, TitlePrompt(m.r.args.prefix.s, db.rows), ShortTtl,
                      "titleSuggestionsFallback", t)

\* lines 664-714: an exception of the wrapper is caught at line 705
TitlesResume(m, t) ==
    IF m.r.call.kind = "throw" THEN Caught(m, StaticList(m.r.args.prefix.s))
    ELSE LET suggestions == ParseSuggestions(m.r.call.value, m.r.args.prefix.s)
         IN  Finish([m EXCEPT !.short = CacheSet(m.short, m.r.key, suggestions,
                                                 Ttl(ShortTtl), ShortTtl, t)],
                    suggestions)

(***************************************************************************)
(* The feature functions called one after the other by a route handler.    *)
(* The slot "a" holds the running call; whatever the database and the      *)
(* remote service may answer is an input of the step that receives it.     *)
(***************************************************************************)
Features ==
    {"predictNextCategory", "generateTaskDescription", "generateCriticalTasksReport",
     "generateTitleSuggestions", "generateTaskPrioritization"}

Work == <<"W", "o", "r", "k">>
Home == <<"H", "o", "m", "e">>

\* The task lists of the calls: none, an empty one, one with a task of
\* each kind (with and without a due date, overdue or not), one of more
\* than five active tasks and a cancelled one, one with a finished task,
\* one with a task that has no createdBy
TaskLists ==
    {None,
     Some(<< >>),
     Some(<<Task("t1", "TODO", "LOW", NoDate),
            Task("t2", "TODO", "URGENT", Date(0)),
            Task("t3", "IN_PROGRESS", "HIGH", Date(2 * DayMs))>>),
     Some(<<Task("t1", "TODO", "LOW", NoDate),
            Task("t2", "TODO", "URGENT", Date(1000)),
            Task("t3", "IN_PROGRESS", "HIGH", Date(3 * DayMs)),
            Task("t4", "CANCELLED", "URGENT", Date(0)),
            Task("t6", "TODO", "MEDIUM", Date(0)),
            Task("t7", "TODO", "HIGH", NoDate),
            Task("t8", "TODO", "HIGH", Date(2 * DayMs))>>),
     Some(<<Task("t4", "COMPLETED", "HIGH", Date(0))>>),
     Some(<<[Task("t5", "TODO", "HIGH", NoDate) EXCEPT !.createdBy = Undefined]>>)}

\* A history of a user, newest first as the query returns it
History(categories) ==
    [i \in DOMAIN categories |->
        HistoryTask(ToString(i), Str(<<"Update report">>), categories[i],
                    Len(categories) - i)]

Histories ==
    {<< >>,
     History(<<Str(Work), Str(Work), Str(Home), Str(Home), Str(Home)>>),
     History(<<Str(Work), Str(Home), Str(Home), Null, Str(Work), Str(Work)>>),
     History(<<Null, Null, Null, Null, Null>>),
     History(<<Str(Home)>>)}

\* what the prisma query may settle with
DbOutcomes ==
    {[kind |-> "rejected", rows |-> << >>]}
        \cup {[kind |-> "rows", rows |-> h] :
                 h \in {<< >>,
                        History(<<Str(Work), Str(Work), Str(Home), Str(Home), Str(Home)>>),
                        History(<<Null, Null, Null, Null, Null>>)}}

\* what the remote service may answer to the prompt of a feature: a
\* failure, an empty text, a word, or a text in one of the shapes the
\* feature's parsing distinguishes
FeatureResponses(fn) ==
    {Response(k, << >>) : k \in ResponseKinds \ {"ok"}}
        \cup {Response("ok", text) :
                 text \in {<< >>, Work} \cup
                   CASE fn = "predictNextCategory" ->
                          {<<" ", "\"", "H", "o", "m", "e", "\"", ".", "\n">>,
                           <<"S", "p", "o", "r", "t">>}
                     [] fn = "generateTitleSuggestions" ->
                          {<<"Sure ", "[", "\"", "Update a", "\"", ",", " ", "1", ",",
                             "\"", "Update b", "\"", ",", "\"", "Update c", "\"", ",",
                             "\"", "Update d", "\"", ",", "\"", "Update e", "\"", ",",
                             "\"", "Update f", "\"", "]">>,
                           <<"[", "\"", "Update a", "\"", ",", "]">>,
                           <<"\"", "Update a", "\"", "\n", "Update b", "\n", " ",
                             "\"", "\"", "Update c", "\"", "\n",
                             "\"", "Update d", "\"", ",", "\n", "\"", "Update e", "\"", "\n",
                             "\"", "Update f", "\"", "\n", "\"", "Update g", "\"">>}
                     [] fn = "generateTaskPrioritization" ->
                          {<<"Here: ", "{", FullJsonBody, "}", " ok">>,
                           <<"{", "prioritizedTasks: oops", "}">>,
                           <<"{", "}">>}
                     [] OTHER -> {<<"Description:", " ", "Do it.", " ">>}}

\* the segment of a feature function has run: its slot and the cache maps
Commit(s, m) ==
    /\ inv' = [inv EXCEPT ![s] = m.r]
    /\ shortTermCache' = m.short
    /\ mediumTermCache' = m.medium

\* a feature function is called; prev remembers the call before it when
\* that was a call of the same function: its arguments, its cache key and
\* what it returned
Called(s, fn, args) ==
    LET r == inv[s]
    IN  Machine([IdleSlot EXCEPT
                    !.pc = "running", !.fn = fn, !.args = args,
                    !.prev = IF r.pc = "done" /\ r.fn = fn
                             THEN [same |-> r.args = args, result |-> r.result,
                                   dbCalls |-> r.dbCalls, fn |-> fn,
                                   args |-> r.args, key |-> r.key]
                             ELSE IdleSlot.prev])

CanCall(s) == inv[s].pc \in {"idle", "done"} /\ started < MaxCalls

PredictCall(s, userTasks, taskTitle) ==
    /\ CanCall(s)
    /\ started' = started + 1
    /\ Commit(s, PredictBegin(Called(s, "predictNextCategory",
                                     [userTasks |-> userTasks, taskTitle |-> taskTitle]),
                              userTasks, taskTitle, now))
    /\ UNCHANGED <<users, requests, now, ticks, lastOp>>

DescribeCall(s, title, summary, userId) ==
    /\ CanCall(s)
    /\ started' = started + 1
    /\ Commit(s, DescribeBegin(Called(s, "generateTaskDescription",
                                      [title |-> title, summary |-> summary,
                                       userId |-> userId]),
                               title, summary, userId, now))
    /\ UNCHANGED <<users, requests, now, ticks, lastOp>>

ReportCall(s, tasks) ==
    /\ CanCall(s)
    /\ started' = started + 1
    /\ Commit(s, ReportBegin(Called(s, "generateCriticalTasksReport", [tasks |-> tasks]),
                             tasks, now))
    /\ UNCHANGED <<users, requests, now, ticks, lastOp>>

TitlesCall(s, prefix) ==
    /\ CanCall(s)
    /\ started' = started + 1
    /\ Commit(s, TitlesBegin(Called(s, "generateTitleSuggestions", [prefix |-> prefix]),
                             prefix, now))
    /\ UNCHANGED <<users, requests, now, ticks, lastOp>>

PrioritizeCall(s, userTasks) ==
    /\ CanCall(s)
    /\ started' = started + 1
    /\ Commit(s, PrioritizationBegin(Called(s, "generateTaskPrioritization",
                                            [userTasks |-> userTasks]),
                                     userTasks, now))
    /\ UNCHANGED <<users, requests, now, ticks, lastOp>>

\* the prisma query of a feature function settles
DbSettle(s, db) ==
    LET m == Machine(inv[s])
    IN  /\ inv[s].pc = "awaitDb"
        /\ Commit(s, CASE inv[s].fn = "predictNextCategory" -> PredictDbSettle(m, db, now)
                      [] inv[s].fn = "generateTaskDescription" -> DescribeDbSettle(m, db, now)
                      [] inv[s].fn = "generateTitleSuggestions" -> TitlesDbSettle(m, db, now))
        /\ UNCHANGED <<users, requests, now, ticks, lastOp, started>>

\* the axios.post of the callGeminiAPI a feature function awaits settles:
\* lines 97-122
RemoteSettle(s, response) ==
    LET r == inv[s]
        w == WrapperSettle(mediumTermCache, r.prompt, r.useCache, r.cacheTtl,
                           r.fallbackFn, r.ctx, response, now)
    IN  /\ r.pc = "awaitRemote"
        /\ r.fn \in Features
        /\ mediumTermCache' = w.cache
        /\ inv' = [inv EXCEPT ![s] = [r EXCEPT !.pc = "awaitCall", !.response = response,
                                                !.call = w.outcome, !.wrote = w.wrote]]
        /\ UNCHANGED <<users, requests, now, ticks, shortTermCache, lastOp, started>>

\* the feature function resumes after its await of callGeminiAPI
Resume(s) ==
    LET m == Machine(inv[s])
    IN  /\ inv[s].pc = "awaitCall"
        /\ Commit(s, CASE inv[s].fn = "predictNextCategory" -> PredictResume(m, now)
                      [] inv[s].fn = "generateTaskDescription" -> DescribeResume(m, now)
                      [] inv[s].fn = "generateCriticalTasksReport" -> ReportResume(m, now)
                      [] inv[s].fn = "generateTitleSuggestions" -> TitlesResume(m, now)
                      [] inv[s].fn = "generateTaskPrioritization" ->
                            PrioritizationResume(m, now))
        /\ UNCHANGED <<users, requests, now, ticks, lastOp, started>>

\* Time passes while the call waits for the database or the remote service,
\* and between calls
Wait(s, d) ==
    /\ inv[s].pc # "awaitCall"
    /\ ticks < MaxWaits
    /\ now' = now + d
    /\ ticks' = ticks + 1
    /\ UNCHANGED <<users, requests, shortTermCache, mediumTermCache, lastOp, inv, started>>

InitFeat ==
    /\ now = DayMs
    /\ ticks = 0
    /\ shortTermCache = EmptyCache
    /\ mediumTermCache = EmptyCache
    /\ lastOp = [op |-> "none"]
    /\ inv = InvIdle
    /\ started = 0
    /\ users = InitUsers
    /\ requests = NoRequests

\* Requests for a description: an anonymous caller and a user with every
\* title and summary, and a second user with one of them.
DescribeInputs ==
    ({<<"a", " ">>, << >>}
        \X {Null, Str(<< >>), Str(<<" ">>), Str(<<"a", " ", "b">>),
            Str(<<"\"", "a">>), Str(<<"b">>)}
        \X {Null, Str(UserId)})
    \cup {<<(<<"a", " ">>), Str(<<"b">>), Str(OtherUserId)>>}

NextFeat ==
    \/ \E h \in {None} \cup {Some(x) : x \in Histories},
          taskTitle \in {Null, Str(<<"d", "o", " ", "h", "o", "m", "e", "w", "o", "r", "k">>)} :
            PredictCall("a", h, taskTitle)
    \/ \E in \in DescribeInputs : DescribeCall("a", in[1], in[2], in[3])
    \/ \E tasks \in TaskLists : ReportCall("a", tasks)
    \/ \E prefix \in {Null, Str(<<"u", "p">>), Str(<<"U", "p", "d">>),
                       Str(<<"\"", "u", "p">>), Str(<<"u", "p", "\"", "d">>)} :
            TitlesCall("a", prefix)
    \/ \E tasks \in TaskLists : PrioritizeCall("a", tasks)
    \/ \E db \in DbOutcomes : DbSettle("a", db)
    \/ \E response \in FeatureResponses(inv["a"].fn) : RemoteSettle("a", response)
    \/ Resume("a")
    \/ \E d \in {1, ShortTtl + 1, PrioritizationTtl + 1, MediumTtl + 1} : Wait("a", d)

SpecFeat == InitFeat /\ [][NextFeat]_vars

(***************************************************************************)
(* Direct use of one CacheManager instance (mediumTermCache, default TTL   *)
(* one hour): any sequence of get / set / delete / cleanup / clear with    *)
(* time passing in between.  lastOp records the latest call: its arguments,*)
(* what the map held for the key when it was called, and what it returned. *)
(***************************************************************************)
Keys == {"k1", "k2"}
Values == {Str(<<"A">>), Str(<<"B">>)}
TickSteps == {1, ShortTtl, MediumTtl}

NoOp == [op |-> "none", key |-> "", arg |-> Null, ttl |-> NoTtl, at |-> 0,
         had |-> FALSE, heldValue |-> Null, heldExpiry |-> 0,
         afterSet |-> FALSE, setValue |-> Null, ret |-> Undefined, size |-> 0]

Held(cache, key) == IF key \in DOMAIN cache THEN cache[key] ELSE [value |-> Null, expiry |-> 0]

OpRecord(op, key, arg, ttl, ret) ==
    [op |-> op, key |-> key, arg |-> arg, ttl |-> ttl, at |-> now,
     had |-> key \in DOMAIN mediumTermCache,
     heldValue |-> Held(mediumTermCache, key).value,
     heldExpiry |-> Held(mediumTermCache, key).expiry,
     afterSet |-> lastOp.op = "set" /\ lastOp.key = key /\ lastOp.at = now,
     setValue |-> IF lastOp.op = "set" /\ lastOp.key = key THEN lastOp.arg ELSE Null,
     ret |-> ret,
     size |-> Cardinality(DOMAIN mediumTermCache)]


InitCache ==
    /\ now = 0
    /\ ticks = 0
    /\ shortTermCache = EmptyCache
    /\ mediumTermCache = EmptyCache
    /\ lastOp = NoOp
    /\ inv = InvIdle
    /\ started = 0
    /\ users = InitUsers
    /\ requests = NoRequests

Tick(d) ==
    /\ ticks < MaxTicks
    /\ now' = now + d
    /\ ticks' = ticks + 1
    /\ lastOp' = [NoOp EXCEPT !.op = "tick", !.at = now + d]
    /\ UNCHANGED <<users, requests, shortTermCache, mediumTermCache, inv, started>>

GetOp(key) ==
    /\ mediumTermCache' = CacheGet(mediumTermCache, key, now).cache
    /\ lastOp' = OpRecord("get", key, Null, NoTtl, CacheGet(mediumTermCache, key, now).value)
    /\ UNCHANGED <<users, requests, now, ticks, shortTermCache, inv, started>>

SetOp(key, value, customTtl) ==
    /\ mediumTermCache' = CacheSet(mediumTermCache, key, value, customTtl, MediumTtl, now)
    /\ lastOp' = OpRecord("set", key, value, customTtl, Undefined)
    /\ UNCHANGED <<users, requests, now, ticks, shortTermCache, inv, started>>

DeleteOp(key) ==
    /\ mediumTermCache' = CacheDelete(mediumTermCache, key)
    /\ lastOp' = OpRecord("delete", key, Null, NoTtl, Undefined)
    /\ UNCHANGED <<users, requests, now, ticks, shortTermCache, inv, started>>

CleanupOp ==
    /\ mediumTermCache' = CacheCleanup(mediumTermCache, now)
    /\ lastOp' = OpRecord("cleanup", "", Null, NoTtl, Undefined)
    /\ UNCHANGED <<users, requests, now, ticks, shortTermCache, inv, started>>

ClearOp ==
    /\ mediumTermCache' = CacheClear(mediumTermCache)
    /\ lastOp' = OpRecord("clear", "", Null, NoTtl, Undefined)
    /\ UNCHANGED <<users, requests, now, ticks, shortTermCache, inv, started>>

NextCache ==
    \/ \E d \in TickSteps : Tick(d)
    \/ \E k \in Keys : GetOp(k)
    \/ \E k \in Keys, v \in Values, ttl \in TtlArgs : SetOp(k, v, ttl)
    \/ \E k \in Keys : DeleteOp(k)
    \/ CleanupOp
    \/ ClearOp

SpecCache == InitCache /\ [][NextCache]_vars

(***************************************************************************)
(* Requests to the admin and user-management routes: two clients, any      *)
(* token, any route with any parameters and body, the queries settling in  *)
(* any order and either way.                                               *)
(***************************************************************************)
RequestShapes ==
    LET Shape(route, target, ids, action, isActive, role) ==
            [route |-> route, target |-> target, ids |-> ids, action |-> action,
             isActive |-> isActive, role |-> role]
    IN  {Shape("status", id, {}, "", a, "absent") :
            id \in UserIds, a \in {"absent", "true", "false"}}
        \cup {Shape("bulk", "", ids, action, "absent", "absent") :
                 ids \in {{}, {"a1"}, {"a2", "u1"}},
                 action \in {"activate", "deactivate", "delete", "purge"}}
        \cup {Shape("update", id, {}, "", a, role) :
                 id \in UserIds, a \in {"absent", "false"},
                 role \in {"absent", "USER", "OWNER"}}
        \cup {Shape("delete", id, {}, "", "absent", "absent") : id \in UserIds}

\* a client sends a request: authenticateToken runs up to its lookup
SendRequest(c, token, shape) ==
    /\ requests[c].pc \in {"idle", "done"}
    /\ started < MaxCalls
    /\ started' = started + 1
    /\ requests' = [requests EXCEPT ![c] =
                      authenticateTokenBegin(
                          [NoRequest EXCEPT !.token = token, !.route = shape.route,
                                            !.target = shape.target, !.ids = shape.ids,
                                            !.action = shape.action,
                                            !.isActive = shape.isActive,
                                            !.role = shape.role])]
    /\ UNCHANGED <<users, now, ticks, shortTermCache, mediumTermCache, lastOp, inv>>

\* the lookup of authenticateToken settles
UserLookupSettle(c, dbOk) ==
    /\ requests[c].pc = "awaitUser"
    /\ requests' = [requests EXCEPT ![c] = authenticateTokenResume(@, users, dbOk)]
    /\ UNCHANGED <<users, now, ticks, shortTermCache, mediumTermCache, lastOp, inv,
                   started>>

\* a query of the handler settles
QuerySettle(c, dbOk) ==
    LET o == HandlerQuery(requests[c], users, dbOk)
        self == requests[c].user.id
        harmed == /\ self \in DOMAIN users
                  /\ \/ self \notin DOMAIN o.users
                     \/ users[self].isActive /\ ~o.users[self].isActive
    IN  /\ requests[c].pc = "awaitDb"
        /\ users' = o.users
        /\ requests' = [requests EXCEPT ![c] = [o.req EXCEPT !.changedSelf = @ \/ harmed]]
        /\ UNCHANGED <<now, ticks, shortTermCache, mediumTermCache, lastOp, inv, started>>

InitAdmin ==
    /\ now = 0
    /\ ticks = 0
    /\ shortTermCache = EmptyCache
    /\ mediumTermCache = EmptyCache
    /\ lastOp = NoOp
    /\ inv = InvIdle
    /\ started = 0
    /\ users = InitUsers
    /\ requests = NoRequests

NextAdmin ==
    \/ \E c \in Clients, token \in UserIds \cup {"none", "bad"},
          shape \in RequestShapes :
           SendRequest(c, token, shape)
    \/ \E c \in Clients, dbOk \in BOOLEAN : UserLookupSettle(c, dbOk)
    \/ \E c \in Clients, dbOk \in BOOLEAN : QuerySettle(c, dbOk)

SpecAdmin == InitAdmin /\ [][NextAdmin]_vars

(***************************************************************************)
(* Properties of CacheManager (checked under SpecCache)                    *)
(***************************************************************************)

\* C4: a get directly after set(key, value, ttl) returns value; a get made
\* after the entry's expiry has passed returns null, never the stored value,
\* and leaves no entry for the key in the map; a get that returns a value
\* returns the value of an entry that has not expired.
C4_GetHonoursExpiry ==
    lastOp.op = "get" =>
        /\ (lastOp.afterSet => lastOp.ret = lastOp.setValue)
        /\ (lastOp.had /\ lastOp.at > lastOp.heldExpiry =>
               /\ lastOp.ret = Null
               /\ lastOp.key \notin DOMAIN mediumTermCache)
        /\ (lastOp.ret # Null =>
               /\ lastOp.had
               /\ ~(lastOp.at > lastOp.heldExpiry)
               /\ lastOp.ret = lastOp.heldValue)

\* an expired entry was read: null came back and the entry is gone
C4_ExpiredReadWitness ==
    /\ lastOp.op = "get"
    /\ lastOp.had
    /\ lastOp.at > lastOp.heldExpiry
    /\ lastOp.heldValue = Str(<<"A">>)
    /\ lastOp.ret = Null
    /\ lastOp.key \notin DOMAIN mediumTermCache

\* C8 as stated: set stores exactly {value, expiry: now + override} when an
\* override is given (0 included), now + defaultTtl only when none is given,
\* replacing any earlier entry.
C8_SetStoresOverrideExpiry ==
    lastOp.op = "set" =>
        /\ lastOp.key \in DOMAIN mediumTermCache
        /\ mediumTermCache[lastOp.key] =
              [value |-> lastOp.arg,
               expiry |-> lastOp.at + (IF lastOp.ttl.given THEN lastOp.ttl.ms
                                                           ELSE MediumTtl)]

(***************************************************************************)
(* Properties of callGeminiAPI, one caller at a time (checked under        *)
(* SpecCall)                                                               *)
(***************************************************************************)
Failed(response) == response.kind \in {"rejected", "nocand", "notext"}

\* C1 as stated, for the fallback functions that return a value: when the
\* remote call fails (the request is rejected, or the response holds no
\* candidates[0].content.parts[0].text) the call returns fallback(prompt)
\* exactly and raises no error.
C1_FailureReturnsFallback ==
    \A s \in Slots :
        (/\ inv[s].pc = "done"
         /\ inv[s].fn = "callGeminiAPI"
         /\ inv[s].fallbackFn = "returns"
         /\ Failed(inv[s].response))
        => inv[s].result = Returned(Str(FallbackText(inv[s].prompt)))

\* C5 as stated: a call with useCache true that finds an unexpired entry
\* under hash(prompt) returns the stored text, whatever it is (the empty
\* string included), and performs no remote call.
C5_UnexpiredEntryIsReturned ==
    [][\A p \in Prompts, ttl \in TtlArgs, f \in FallbackFns :
          (/\ CallStart("a", p, TRUE, ttl, f)
           /\ generateHash(p) \in DOMAIN mediumTermCache
           /\ ~(now > mediumTermCache[generateHash(p)].expiry)
           /\ mediumTermCache[generateHash(p)].value.t = "string")
          => /\ inv'["a"].pc = "done"
             /\ inv'["a"].remoteCalls = 0
             /\ inv'["a"].result = Returned(mediumTermCache[generateHash(p)].value)]_vars

\* C6 as stated: on remote success with useCache true the text is stored
\* under hash(prompt) with expiry now + ttlMs and returned, and a later call
\* with the same prompt before that expiry returns the identical text; with
\* useCache false the store is neither read nor written.
C6_SuccessIsCachedForTtl ==
    [][/\ \A rsp \in Responses :
            (CallSettle("a", rsp) /\ rsp.kind = "ok")
            => /\ inv'["a"].result = Returned(Str(rsp.text))
               /\ IF inv["a"].useCache
                  THEN /\ generateHash(inv["a"].prompt) \in DOMAIN mediumTermCache'
                       /\ mediumTermCache'[generateHash(inv["a"].prompt)] =
                             [value |-> Str(rsp.text),
                              expiry |-> now + inv["a"].cacheTtl]
                  ELSE mediumTermCache' = mediumTermCache
       /\ \A p \in Prompts, u \in BOOLEAN, ttl \in TtlArgs, f \in FallbackFns :
            CallStart("a", p, u, ttl, f)
            => IF u
               THEN (/\ generateHash(p) \in DOMAIN mediumTermCache
                     /\ ~(now > mediumTermCache[generateHash(p)].expiry)
                     /\ mediumTermCache[generateHash(p)].value.t = "string")
                    => inv'["a"].result =
                          Returned(mediumTermCache[generateHash(p)].value)
               ELSE mediumTermCache' = mediumTermCache /\ ~inv'["a"].hit]_vars

\* C7 as stated: when the remote call fails and no fallback was supplied the
\* call raises an error instead of returning a value, and it leaves the
\* medium-tier store as it found it.
C7_FailureWithoutFallbackThrows ==
    \A s \in Slots :
        (/\ inv[s].pc = "done"
         /\ inv[s].fn = "callGeminiAPI"
         /\ inv[s].fallbackFn = "none"
         /\ Failed(inv[s].response))
        => /\ inv[s].result.kind = "throw"
           /\ ~inv[s].touched

(***************************************************************************)
(* Properties of concurrent calls of callGeminiAPI (checked under Spec)    *)
(***************************************************************************)
EntryOf(r) == mediumTermCache[generateHash(r.prompt)]
HasEntry(r) == generateHash(r.prompt) \in DOMAIN mediumTermCache

\* C9: a call that starts while another call with the same cache key is in
\* flight (and nobody has set the key since that one looked it up) is not
\* joined to it: it misses the cache as well and issues a remote call of its
\* own; each of the two that succeeds writes the key; and the entry, while
\* there is one, holds the text of whichever call wrote last.
C9_NoDeduplicationLastWriteWins ==
    \A s \in Slots :
        /\ inv[s].concurrent => ~inv[s].hit /\ inv[s].remoteCalls = 1
        /\ (inv[s].pc = "done" /\ inv[s].useCache /\ inv[s].response.kind = "ok")
               => inv[s].wrote
        /\ (inv[s].lastWriter /\ HasEntry(inv[s]))
               => EntryOf(inv[s]).value = GeneratedText(inv[s].response)

\* both calls overlapped on one key, both succeeded with different texts and
\* wrote; the one that was started first settled last and its text is cached
C9_BothWroteWitness ==
    /\ inv["a"].concurrent
    /\ inv["a"].pc = "done" /\ inv["b"].pc = "done"
    /\ inv["a"].prompt = inv["b"].prompt
    /\ inv["a"].remoteCalls = 1 /\ inv["b"].remoteCalls = 1
    /\ inv["a"].wrote /\ inv["b"].wrote
    /\ inv["a"].response.text = <<"A">> /\ inv["b"].response.text = <<"B">>
    /\ inv["b"].lastWriter /\ ~inv["a"].lastWriter
    /\ HasEntry(inv["b"]) /\ EntryOf(inv["b"]).value = Str(<<"B">>)

C2_FeaturesNeverReject ==
    \A s \in Slots :
        inv[s].fn \in Features /\ inv[s].pc = "done"
            => inv[s].result.kind = "return"

\* a title suggestion call whose remote call failed and whose fallback
\* threw, so that callGeminiAPI threw, has returned the five static titles
C2_WrapperThrewWitness ==
    \E s \in Slots :
        /\ inv[s].fn = "generateTitleSuggestions"
        /\ inv[s].pc = "done"
        /\ inv[s].response.kind = "rejected"
        /\ inv[s].call.kind = "throw"
        /\ inv[s].result = Returned(StaticList(inv[s].args.prefix.s))

\* C3: every feature function that calls the wrapper passes it a fallback
\* function, and generateTaskPrioritization with at least one active task
\* and a failing remote call returns a prioritizedTasks list that is not
\* empty: the first five of the active tasks.
C3_EveryFeaturePassesFallback ==
    \A s \in Slots :
        inv[s].fn \in Features =>
            /\ inv[s].pc = "awaitRemote" => inv[s].fallbackFn # "none"
            /\ /\ inv[s].fn = "generateTaskPrioritization"
               /\ inv[s].pc = "done"
               /\ inv[s].remoteCalls = 1
               /\ Failed(inv[s].response)
               => /\ inv[s].result.kind = "return"
                  /\ Len(inv[s].result.value.o.prioritizedTasks)
                        = Len(Slice(inv[s].ctx, 5))
                  /\ inv[s].result.value.o.prioritizedTasks # << >>

\* C11: for each of the five feature functions, a call that follows at once
\* (no time has passed, nothing cleared a cache) a call with the same
\* arguments returns what that call returned, whatever the remote service
\* answers to either.  Calls that query the database are left aside, so
\* that the two calls differ in nothing but the answers of the service.
C11_ImmediateRepeatReturnsSame ==
    \A s \in Slots :
        /\ inv[s].fn \in Features
        /\ inv[s].pc = "done"
        /\ inv[s].prev.same
        /\ inv[s].dbCalls = 0
        /\ inv[s].prev.dbCalls = 0
        /\ ticks = 0
        => inv[s].result = inv[s].prev.result

\* C12: the cache keys of generateTaskDescription and of
\* generateTitleSuggestions are injective: two requests with different
\* (title, summary) pairs, or with different (userId, prefix) pairs, never
\* have the same cache key, so that a request is never answered with what
\* was cached for another one.
C12_FeatureKeysAreInjective ==
    \A s \in Slots :
        /\ inv[s].fn \in {"generateTaskDescription", "generateTitleSuggestions"}
        /\ inv[s].prev.fn = inv[s].fn
        /\ inv[s].key # << >>
        /\ inv[s].prev.key = inv[s].key
        => IF inv[s].fn = "generateTaskDescription"
           THEN /\ inv[s].prev.args.title = inv[s].args.title
                /\ inv[s].prev.args.summary = inv[s].args.summary
           ELSE inv[s].prev.args.prefix = inv[s].args.prefix

\* C13: every value other than null that predictNextCategory returns is a
\* category of a task of the history the call was given or fetched; and an
\* answer of the service that is no category of the history, exactly or as
\* a case-insensitive substring in either direction, is dropped: the call
\* returns the statistical prediction.
C13_PredictionIsKnownCategory ==
    \A s \in Slots :
        inv[s].fn = "predictNextCategory" /\ inv[s].pc = "done" =>
            LET userTasks == inv[s].ctx
                value == inv[s].result.value
                answer == CleanPrediction(inv[s].call.value.s)
                Matches(task) ==
                    /\ HasCategory(task)
                    /\ \/ Includes(ToLowerCase(task.category.s), ToLowerCase(answer))
                       \/ Includes(ToLowerCase(answer), ToLowerCase(task.category.s))
            IN  /\ value # Null =>
                    \E i \in DOMAIN userTasks : userTasks[i].category = value
                /\ /\ inv[s].call.kind = "return"
                   /\ inv[s].call.value.t = "string"
                   /\ \A i \in DOMAIN userTasks : ~Matches(userTasks[i])
                   => value = StatisticalPrediction(userTasks)

\* C14: on the statistical path of predictNextCategory (no answer of the
\* service is used and no cached prediction exists), when a category is
\* shared by at least two of the three most recently created tasks, in
\* whatever positions, that category is returned; otherwise a category
\* that no other category exceeds in number of tasks is returned.
C14_TwoOfThreeMostRecent ==
    \A s \in Slots :
        /\ inv[s].fn = "predictNextCategory"
        /\ inv[s].pc = "done"
        /\ inv[s].prev.fn # "predictNextCategory"
        /\ inv[s].remoteCalls = 0
        /\ CategoriesOf(inv[s].ctx) # << >>
        => LET userTasks == inv[s].ctx
               categories == CategoriesOf(userTasks)
               top3 == Slice(Sort("createdAt", userTasks, 0), 3)
               Shared(c) == Cardinality({i \in DOMAIN top3 : top3[i].category = Str(c)}) >= 2
               value == inv[s].result.value
           IN  IF \E i \in DOMAIN categories : Shared(categories[i])
               THEN value.t = "string" /\ Shared(value.s)
               ELSE \E i \in DOMAIN categories :
                       /\ value = Str(categories[i])
                       /\ \A j \in DOMAIN categories :
                             UsageOf(userTasks, categories[j])
                                <= UsageOf(userTasks, categories[i])

\* C15: a call of predictNextCategory with an empty task list, or with a
\* list in which no task has a category (with or without a title, of any
\* length), returns null, makes no remote call and adds or changes no
\* entry of either cache.
C15_NoCategoriesNoPrediction ==
    [][\A s \in Slots :
          /\ started' # started \/ inv'[s].pc # inv[s].pc
          /\ inv'[s].fn = "predictNextCategory"
          /\ inv'[s].args.userTasks.given
          /\ CategoriesOf(inv'[s].args.userTasks.v) = << >>
          => /\ inv'[s].pc = "done"
             /\ inv'[s].result = Returned(Null)
             /\ inv'[s].remoteCalls = 0
             /\ \A k \in DOMAIN shortTermCache' :
                   k \in DOMAIN shortTermCache /\ shortTermCache'[k] = shortTermCache[k]
             /\ mediumTermCache' = mediumTermCache]_vars

\* C16: when the remote call of generateTitleSuggestions (prefix of three
\* characters or more) succeeds with a text in which neither a bracketed
\* array nor a quoted line is found, such as plain prose, the call returns
\* the five fixed titles built from the prefix, none of them empty, and
\* does not throw.
C16_UnparsableTextGivesFiveTitles ==
    \A s \in Slots :
        /\ inv[s].fn = "generateTitleSuggestions"
        /\ inv[s].pc = "done"
        /\ inv[s].remoteCalls = 1
        /\ inv[s].response.kind = "ok"
        /\ SpanMatch(inv[s].response.text, "[", "]") = << >>
        /\ LineSuggestions(inv[s].response.text) = << >>
        => /\ inv[s].result = Returned(StaticList(inv[s].args.prefix.s))
           /\ Len(inv[s].result.value.l) = 5
           /\ \A i \in DOMAIN inv[s].result.value.l :
                 inv[s].result.value.l[i].s # << >>

\* C17: when the remote call of generateTitleSuggestions fails, for every
\* prefix of three characters or more, a double quote in it or not, the
\* call returns prefix + " task", " project", " review", " update",
\* " meeting" built from the whole prefix, so that every suggestion begins
\* with the prefix.
C17_FailureGivesTitlesOfFullPrefix ==
    \A s \in Slots :
        /\ inv[s].fn = "generateTitleSuggestions"
        /\ inv[s].pc = "done"
        /\ inv[s].remoteCalls = 1
        /\ Failed(inv[s].response)
        => /\ inv[s].result = Returned(StaticList(inv[s].args.prefix.s))
           /\ \A i \in DOMAIN inv[s].result.value.l :
                 StartsWith(inv[s].result.value.l[i].s, inv[s].args.prefix.s)

\* C18: whatever the calls before it, the answers of the service and the
\* content of the caches, what generateTitleSuggestions returns is a list
\* of at most five elements, each of them a string.
C18_AtMostFiveStrings ==
    \A s \in Slots :
        inv[s].fn = "generateTitleSuggestions" /\ inv[s].pc = "done" =>
            /\ inv[s].result.kind = "return"
            /\ inv[s].result.value.t = "array"
            /\ Len(inv[s].result.value.l) <= 5
            /\ \A i \in DOMAIN inv[s].result.value.l :
                  inv[s].result.value.l[i].t = "string"

\* the service answered an array of six strings and a number: the call
\* has returned the first five strings
C18_LongArrayWitness ==
    \E s \in Slots :
        /\ inv[s].fn = "generateTitleSuggestions"
        /\ inv[s].pc = "done"
        /\ inv[s].response.kind = "ok"
        /\ JsonParseArray(SpanMatch(inv[s].response.text, "[", "]")).ok
        /\ Len(JsonParseArray(SpanMatch(inv[s].response.text, "[", "]")).items) = 7
        /\ Len(inv[s].result.value.l) = 5
        /\ inv[s].result.value.l[2] = Str(<<"Update b">>)

\* C19: when what the remote call of generateTaskPrioritization returned
\* does not parse as a JSON object, prioritizedTasks holds the first
\* min(5, n) of the n active tasks in the order: overdue tasks first, then
\* by priority URGENT, HIGH, MEDIUM, LOW, then by ascending due date with
\* the tasks without a due date last.  No completed or cancelled task is in
\* it, and no task left out sorts before a task in it.
C19_FallbackSortsActiveTasks ==
    \A s \in Slots :
        /\ inv[s].fn = "generateTaskPrioritization"
        /\ inv[s].pc = "done"
        /\ inv[s].remoteCalls = 1
        /\ inv[s].call.kind = "return"
        /\ \/ inv[s].call.value.t # "string"
           \/ SpanMatch(inv[s].call.value.s, "{", "}") = << >>
           \/ ~JsonParses(SpanMatch(inv[s].call.value.s, "{", "}"))
        => LET userTasks == inv[s].args.userTasks.v
               active == {userTasks[i] : i \in {j \in DOMAIN userTasks :
                             userTasks[j].status \notin {"COMPLETED", "CANCELLED"}}}
               listed == inv[s].result.value.o.prioritizedTasks
               TaskOf(entry) == CHOOSE task \in active : task.id = entry.id
               Rank(task) == CASE task.priority = "URGENT" -> 1
                               [] task.priority = "HIGH" -> 2
                               [] task.priority = "MEDIUM" -> 3
                               [] task.priority = "LOW" -> 4
               Overdue(task) == task.dueDate.given /\ task.dueDate.ms < now
               Before(a, b) ==
                   \/ Overdue(a) /\ ~Overdue(b)
                   \/ /\ Overdue(a) = Overdue(b)
                      /\ \/ Rank(a) < Rank(b)
                         \/ /\ Rank(a) = Rank(b)
                            /\ \/ a.dueDate.given /\ ~b.dueDate.given
                               \/ /\ a.dueDate.given /\ b.dueDate.given
                                  /\ a.dueDate.ms < b.dueDate.ms
           IN  /\ Len(listed) = IF Cardinality(active) < 5 THEN Cardinality(active) ELSE 5
               /\ \A i \in DOMAIN listed : \E task \in active : task.id = listed[i].id
               /\ \A i, j \in DOMAIN listed :
                     i < j => /\ listed[i].id # listed[j].id
                              /\ ~Before(TaskOf(listed[j]), TaskOf(listed[i]))
               /\ \A task \in active :
                     (\A i \in DOMAIN listed : listed[i].id # task.id)
                        => \A i \in DOMAIN listed : ~Before(task, TaskOf(listed[i]))

\* the service answered prose to the request about six active tasks and a
\* cancelled one: the five listed are the two overdue tasks, URGENT before
\* MEDIUM, then the three HIGH ones, the undated one last
C19_SortedTopFiveWitness ==
    \E s \in Slots :
        /\ inv[s].fn = "generateTaskPrioritization"
        /\ inv[s].pc = "done"
        /\ inv[s].remoteCalls = 1
        /\ inv[s].response = Response("ok", Work)
        /\ Len(inv[s].args.userTasks.v) = 7
        /\ [i \in 1..5 |-> inv[s].result.value.o.prioritizedTasks[i].id]
              = <<<<"t2">>, <<"t6">>, <<"t8">>, <<"t3">>, <<"t7">>>>

\* C20: whatever generateTaskPrioritization returns for a list with at
\* least one active task has the same shape, whether it comes from the
\* parsed answer of the service, whatever JSON object that answer held, or
\* from the local sort: a message that is not empty, a prioritizedTasks
\* list of at most five entries, and logic, atRiskTasks and suggestions.
C20_SameSchemaOnBothPaths ==
    \A s \in Slots :
        /\ inv[s].fn = "generateTaskPrioritization"
        /\ inv[s].pc = "done"
        /\ inv[s].ctx # << >>
        => /\ inv[s].result.kind = "return"
           /\ inv[s].result.value.t = "object"
           /\ DOMAIN inv[s].result.value.o
                 = {"message", "prioritizedTasks", "logic", "atRiskTasks", "suggestions"}
           /\ inv[s].result.value.o.message # << >>
           /\ Len(inv[s].result.value.o.prioritizedTasks) <= 5

\* C21: generateCriticalTasksReport takes a task as critical exactly when
\* its priority is HIGH or URGENT and its status is neither COMPLETED nor
\* CANCELLED, and as overdue exactly when its due date is past and its
\* status is neither COMPLETED nor CANCELLED; the overdue tasks are given
\* by ascending due date (most overdue first) in the prompt and in the
\* report the fallback writes.
C21_ReportClassifiesAndOrders ==
    [][\A s \in Slots :
          inv'[s].fn = "generateCriticalTasksReport" /\ inv'[s].remoteCalls = 1 =>
              LET tasks == inv'[s].args.tasks.v
                  Open(task) == task.status \notin {"COMPLETED", "CANCELLED"}
                  Critical(task) == task.priority \in {"HIGH", "URGENT"} /\ Open(task)
                  Overdue(task) == task.dueDate.given /\ task.dueDate.ms < now /\ Open(task)
                  critical == SelectSeq(tasks, Critical)
                  overdue == Sort("dueDate", SelectSeq(tasks, Overdue), now)
              IN  /\ started' # started =>
                        inv'[s].prompt = ReportPrompt(critical, overdue, now)
                  /\ inv[s].pc = "awaitRemote" /\ Throws(inv'[s].response) =>
                        inv'[s].call = Returned(reportFallback(critical, overdue, now))]_vars

\* C22: what a feature function stores lives for the feature's TTL: five
\* minutes for a category prediction and for title suggestions, one hour
\* for a description, thirty minutes for a prioritization.  A call that
\* looks up a key whose entry has not expired returns the stored value and
\* makes no remote call; a call that looks up a key whose entry has expired
\* does not keep that entry: it computes again.
C22_FeatureResultsLiveForTheirTtl ==
    [][\A s \in Slots :
          inv'[s].fn \in Features \ {"generateCriticalTasksReport"} =>
              LET fn == inv'[s].fn
                  key == inv'[s].key
                  short == fn \in {"predictNextCategory", "generateTitleSuggestions"}
                  store == IF short THEN shortTermCache ELSE mediumTermCache
                  stored == IF short THEN shortTermCache' ELSE mediumTermCache'
                  ttl == CASE short -> 5 * 60 * 1000
                           [] fn = "generateTaskDescription" -> 60 * 60 * 1000
                           [] fn = "generateTaskPrioritization" -> 30 * 60 * 1000
                  looksUp == /\ key # << >>
                             /\ \/ started' # started
                                \/ inv[s].pc = "awaitDb" /\ inv[s].key = << >>
                  stores == /\ inv'[s].pc = "done" /\ inv[s].pc # "done"
                            /\ key \in DOMAIN stored
                            /\ key \in DOMAIN store => stored[key] # store[key]
              IN  /\ stores => stored[key].expiry = now + ttl
                  /\ looksUp /\ key \in DOMAIN store /\ now <= store[key].expiry =>
                        /\ inv'[s].pc = "done"
                        /\ inv'[s].result = Returned(store[key].value)
                        /\ inv'[s].remoteCalls = 0
                  /\ looksUp /\ key \in DOMAIN store /\ now > store[key].expiry =>
                        ~(key \in DOMAIN stored /\ stored[key] = store[key])]_vars

\* C23: once generateCriticalTasksReport has returned a report for a task
\* list, a second call with the same list within one hour makes no remote
\* call and returns that report, whether the report came from the service
\* or from the fallback.  (The clock starts at DayMs, so a time of at most
\* DayMs + MediumTtl is within the hour of any earlier call.)
C23_ReportIsCachedOneHour ==
    \A s \in Slots :
        /\ inv[s].fn = "generateCriticalTasksReport"
        /\ inv[s].prev.same
        /\ inv[s].prev.result # Returned(ReportError)
        /\ now <= DayMs + MediumTtl
        => /\ inv[s].remoteCalls = 0
           /\ inv[s].pc = "done" => inv[s].result = inv[s].prev.result

\* C24: trivial arguments end the call at once, before any remote call,
\* database query or cache write: generateTaskDescription with no summary
\* or a summary of white space only returns null, generateTitleSuggestions
\* with a prefix of fewer than three characters returns the empty list,
\* generateTaskPrioritization with no task, or with completed and cancelled
\* tasks only, returns a message that is not empty and prioritizedTasks = [].
C24_TrivialInputsShortCircuit ==
    [][\A s \in Slots :
          started' # started =>
              LET r == inv'[s]
                  Blank(v) == v.t # "string" \/ \A i \in DOMAIN v.s : v.s[i] \in {" ", "\n", "\t"}
                  NoneActive(tasks) ==
                      ~tasks.given
                          \/ \A i \in DOMAIN tasks.v :
                                tasks.v[i].status \in {"COMPLETED", "CANCELLED"}
                  trivial ==
                      CASE r.fn = "generateTaskDescription" -> Blank(r.args.summary)
                        [] r.fn = "generateTitleSuggestions" ->
                              r.args.prefix.t # "string" \/ Len(r.args.prefix.s) < 3
                        [] r.fn = "generateTaskPrioritization" -> NoneActive(r.args.userTasks)
                        [] OTHER -> FALSE
              IN  trivial =>
                      /\ r.pc = "done"
                      /\ r.remoteCalls = 0 /\ r.dbCalls = 0
                      /\ shortTermCache' = shortTermCache
                      /\ mediumTermCache' = mediumTermCache
                      /\ CASE r.fn = "generateTaskDescription" -> r.result = Returned(Null)
                           [] r.fn = "generateTitleSuggestions" ->
                                 r.result = Returned(List(<< >>))
                           [] r.fn = "generateTaskPrioritization" ->
                                 /\ r.result.kind = "return"
                                 /\ r.result.value.o.message # << >>
                                 /\ r.result.value.o.prioritizedTasks = << >>]_vars

\* a description was asked for a summary of one space after an earlier call
\* had filled the cache: null was returned
C24_BlankSummaryWitness ==
    \E s \in Slots :
        /\ inv[s].fn = "generateTaskDescription"
        /\ inv[s].pc = "done"
        /\ inv[s].args.summary = Str(<<" ">>)
        /\ inv[s].result = Returned(Null)
        /\ mediumTermCache # EmptyCache

\* C25: one invocation of a feature function makes at most one remote
\* call: an answer that is invalid, that does not parse, or a failure of
\* the call is dealt with locally, never by asking the service again.
C25_AtMostOneRemoteCall ==
    \A s \in Slots :
        inv[s].fn \in Features => inv[s].remoteCalls <= 1

\* the service answered a category the history does not have: the call
\* has returned the statistical prediction after its only remote call
C25_InvalidAnswerWitness ==
    \E s \in Slots :
        /\ inv[s].fn = "predictNextCategory"
        /\ inv[s].pc = "done"
        /\ inv[s].response = Response("ok", <<"S", "p", "o", "r", "t">>)
        /\ inv[s].remoteCalls = 1
        /\ inv[s].result = Returned(StatisticalPrediction(inv[s].ctx))


\* C26: cleanup() removes exactly the entries whose expiry has passed and
\* leaves every unexpired entry (key, value and expiry) as it was; a get(key)
\* at this or any later time answers the same with or without the cleanup;
\* delete(key) removes that key only and changes nothing when it is absent.
C26_CleanupAndDeleteFrame ==
    [][ /\ lastOp'.op = "cleanup" =>
             /\ \A k \in Keys :
                  /\ k \in DOMAIN mediumTermCache' <=>
                       (k \in DOMAIN mediumTermCache
                        /\ ~(now > mediumTermCache[k].expiry))
                  /\ k \in DOMAIN mediumTermCache' =>
                       mediumTermCache'[k] = mediumTermCache[k]
             /\ \A k \in Keys : \A d \in {0} \cup TickSteps :
                  CacheGet(mediumTermCache', k, now + d).value
                    = CacheGet(mediumTermCache, k, now + d).value
        /\ lastOp'.op = "delete" =>
             /\ DOMAIN mediumTermCache' = DOMAIN mediumTermCache \ {lastOp'.key}
             /\ \A k \in DOMAIN mediumTermCache' :
                  mediumTermCache'[k] = mediumTermCache[k]
             /\ ~lastOp'.had => mediumTermCache' = mediumTermCache
      ]_vars

\* A cleanup applied to two entries that kept one and removed the other.
C26_CleanupKeptOneWitness ==
    /\ lastOp.op = "cleanup"
    /\ lastOp.size = 2
    /\ Cardinality(DOMAIN mediumTermCache) = 1
    /\ \E k \in DOMAIN mediumTermCache : mediumTermCache[k].expiry >= now


\* C28 as stated: when the remote call of callGeminiAPI fails (rejected
\* request, or a response without candidates[0].content.parts[0].text) the
\* medium-tier store is left as it was, whatever the fallback returned, and
\* the next call with the same prompt goes to the remote service again.
C28_FailureLeavesStoreUnchanged ==
    [][/\ (/\ inv["a"].pc = "awaitRemote"
           /\ inv'["a"].pc = "done"
           /\ Failed(inv'["a"].response))
          => mediumTermCache' = mediumTermCache
       /\ (/\ started' # started
           /\ inv["a"].pc = "done"
           /\ Failed(inv["a"].response)
           /\ inv["a"].useCache
           /\ inv'["a"].prompt = inv["a"].prompt)
          => /\ ~inv'["a"].hit
             /\ inv'["a"].remoteCalls = 1
             /\ inv'["a"].pc = "awaitRemote"]_vars


\* C29 as stated: the description returned to a user is computed from that
\* user's own request (own title, summary and task history, and the answer
\* to the request sent for them), as it would be had no other user called
\* before: it never comes out of what an earlier request of another user
\* left behind.
C29_DescriptionIndependentOfOtherUsers ==
    \A s \in Slots :
        (/\ inv[s].fn = "generateTaskDescription"
         /\ inv[s].pc = "done"
         /\ inv[s].prev.fn = "generateTaskDescription"
         /\ Truthy(inv[s].args.userId)
         /\ Truthy(inv[s].prev.args.userId)
         /\ inv[s].prev.args.userId # inv[s].args.userId
         /\ Truthy(inv[s].args.summary)
         /\ Trim(inv[s].args.summary.s) # << >>)
        => inv[s].remoteCalls = 1


(***************************************************************************)
(* Properties of the admin and user-management routes (checked under       *)
(* SpecAdmin)                                                              *)
(***************************************************************************)

\* C27 as stated: a handler of the admin router is entered only after
\* authenticateToken, requireActiveUser and requireAdmin have all called
\* next(), so only for a request that carries the token of an existing,
\* active user whose role is ADMIN.
C27_AdminHandlersBehindThreeChecks ==
    \A c \in Clients :
        (requests[c].handler /\ requests[c].route \in {"status", "bulk"})
        => /\ {"authenticateToken", "requireActiveUser", "requireAdmin"}
                  \subseteq requests[c].passed
           /\ requests[c].token \in UserIds
           /\ requests[c].user.id = requests[c].token
           /\ requests[c].user.isActive
           /\ requests[c].user.role = "ADMIN"

\* C30 as stated: a request of an admin that would deactivate or delete the
\* admin's own user record (status change, bulk action, user update, user
\* delete) is answered 400 by its handler, and no request ever deactivates
\* or deletes the record of the user who sent it.
C30_NoSelfDeactivationOrDeletion ==
    \A c \in Clients :
        LET req == requests[c]
            aimsAtSelf ==
                \/ req.route = "status" /\ req.target = req.user.id
                                        /\ req.isActive = "false"
                \/ req.route = "bulk" /\ req.user.id \in req.ids
                                      /\ req.action \in {"deactivate", "delete"}
                \/ req.route = "update" /\ req.target = req.user.id
                                        /\ req.isActive = "false"
                \/ req.route = "delete" /\ req.target = req.user.id
        IN  /\ ~req.changedSelf
            /\ (req.handler /\ aimsAtSelf)
                   => req.pc = "done" /\ req.status = 400

=============================================================================
